---- MODULE Spec2Model ----
(***************************************************************************)
(* cos-proxy.                                                              *)
(*                                                                         *)
(* Spec: the streaming multipart upload of COSProxyHandler                 *)
(* (executeMultipartPut): one producer goroutine that splits the request   *)
(* body into parts, a pool of worker goroutines that upload them, two      *)
(* buffered channels and an errgroup, followed by abort or complete.       *)
(*                                                                         *)
(* CtrlSpec: one request through the IP whitelist middleware and the       *)
(* S3Controller (dispatcher and the eight operations).                     *)
(*                                                                         *)
(* AddrSpec: S3Controller.extractBucketAndKey on its own.                  *)
(***************************************************************************)
EXTENDS Bags, FiniteSets, Integers, Sequences, TLC

\* ---------------------------------------------------------------- bounds
\* partSize of the source (8 MiB) in model units: one unit is 4 MiB.
PartSize == 2
\* Longest request body, in the same units.
MaxStreamLen == 12

\* ------------------------------------------------------ program constants
\* const concurrency = 5: number of workers and capacity of both channels.
Concurrency == 5

MaxParts == (MaxStreamLen + PartSize - 1) \div PartSize

\* Parts of the longest body of whole parts: enough to fill the queue and to
\* give every worker one more part twice over.
LongParts == 2 * Concurrency + 1
LongStreamLen == LongParts * PartSize

PartNumbers ==
    1..((IF MaxParts > LongParts THEN MaxParts ELSE LongParts) + 1)

VARIABLES
    pc,            \* position of the handler goroutine in executeMultipartPut
    bodyPos,       \* bytes of the request body consumed so far
    bodyEnd,       \* how the body ended: "EOF", "Truncated", "Error";
                   \* "open" while a read has not yet met its end
    uploadID,      \* initResult.UploadID ("" before Initiate succeeded)
    initErr,       \* error returned by InitiateMultipartUpload
    partsCh,       \* chan partUpload, capacity Concurrency
    partsClosed,   \* close(partsCh) has run
    uploadedCh,    \* chan uploadedPart, capacity Concurrency
    uploadedClosed,\* close(uploadedCh) has run
    workers,       \* bag of the worker goroutines' states
    producer,      \* state of the reading goroutine
    gErr,          \* errgroup: the first non-nil error returned by a task
    ctxDone,       \* errgroup context is cancelled
    emitted,       \* history: the parts accepted by partsCh, in order
    buffers,       \* the buffers the producer allocated, in order: what
                   \* each holds, as the stream offset and length of the
                   \* bytes last read into it
    lateSends,     \* history: parts accepted by partsCh after the context
                   \* was cancelled
    uploadCalls,   \* history: UploadPart calls started, per part number
    etagRet,       \* history: ETag returned by UploadPart, per part number
    failedParts,   \* history: part numbers whose UploadPart returned an error
    readErr,       \* history: error of the last read of the body
    abortCalls,    \* history: AbortMultipartUpload calls issued
    abortErr,      \* history: error returned by AbortMultipartUpload
    completeCalls, \* history: CompleteMultipartUpload calls issued
    completeErr,   \* history: error returned by CompleteMultipartUpload
    uploadedParts, \* history: the results drained from uploadedCh, unsorted
    manifest,      \* history: compOpt.Parts of the Complete call
    response,      \* what was written to the http.ResponseWriter
    \* ---- one request through the middleware and the S3Controller
    rpc,           \* position of the request: "idle", "middleware",
                   \* "dispatch", the operation's or handler's name,
                   \* "servehttp", "done"
    rq,            \* the request as the middleware and dispatcher read it
    inp,           \* what the operation read of the request and backend
    op,            \* what the dispatcher chose: the operation it invoked
                   \* or the status it answered itself ("" before)
    calls,         \* history: the backend calls issued, in order
    rsp,           \* the response written to the client
    \* ---- a second call of executeMultipartPut in the same process
    sibling,       \* the variables of the executeMultipartPut call that is
                   \* not being stepped, in the order of mpVars
    \* ---- the inbound request's context
    reqCtx         \* r.Context(): whether it is done (the client went away
                   \* or a deadline passed), and how many UploadPart calls
                   \* were in flight when that happened

\* The variables of the request pipeline.
ctrlVars == <<rpc, rq, inp, op, calls, rsp>>

\* The variables of executeMultipartPut.
mpVars == <<pc, bodyPos, bodyEnd, uploadID, initErr, partsCh,
          partsClosed, uploadedCh, uploadedClosed, workers, producer, gErr,
          ctxDone, emitted,
          buffers,
          lateSends, uploadCalls, etagRet, failedParts, readErr,
          abortCalls, abortErr, completeCalls, completeErr, uploadedParts,
          manifest, response>>

\* The variables of executeMultipartPut other than the handler's position.
mpData == <<bodyPos, bodyEnd, uploadID, initErr, partsCh,
          partsClosed, uploadedCh, uploadedClosed, workers, producer, gErr,
          ctxDone, emitted,
          buffers,
          lateSends, uploadCalls, etagRet, failedParts, readErr,
          abortCalls, abortErr, completeCalls, completeErr, uploadedParts,
          manifest, response>>

vars == <<mpVars, ctrlVars, sibling, reqCtx>>

\* ----------------------------------------------------------------- errors
Err(kind, status, pn) == [kind |-> kind, status |-> status, pn |-> pn]
NoErr == Err("nil", 0, 0)
\* *cos.ErrorResponse carrying the backend's HTTP status
CosErr(status, pn) == Err("cos", status, pn)
\* any other error of the SDK (transport failure)
TransportErr == Err("transport", 0, 0)
EOF == Err("EOF", 0, 0)
ErrUnexpectedEOF == Err("ErrUnexpectedEOF", 0, 0)
BodyReadErr == Err("read", 0, 0)
Canceled == Err("context canceled", 0, 0)

\* Outcomes of a backend call other than UploadPart: success or a failure.
BackendOutcomes == {NoErr, CosErr(403, 0), TransportErr}

\* ---------------------------------------------------------------- responses
NoResponse == [status |-> 0, body |-> <<>>]

\* handleCOSError: a *cos.ErrorResponse is answered with its own status and
\* body, anything else with 500 "Internal Server Error".
handleCOSError(err) ==
    IF err.kind = "cos"
    THEN [status |-> err.status, body |-> <<"cos error body", err>>]
    ELSE [status |-> 500, body |-> <<"Internal Server Error">>]

\* ------------------------------------------------------------- the backend
NoETag == <<>>
\* The ETag the backend returns for a part: a fingerprint of its content,
\* here of the part's position in the stream.
BackendETag(part) == <<"etag", part.Off, part.Len>>

\* Mutant of Alloc: one buffer, made before the loop, serves every read.
Alloc_Mut(heap) == 1

\* line 297: buffer := make([]byte, partSize) in every iteration: a buffer
\* no earlier read used
Alloc(heap) == Len(heap) + 1

\* The heap after n bytes from stream offset off were read into buffer b.
ReadInto(heap, b, off, n) ==
    IF b > Len(heap)
    THEN Append(heap, [Off |-> off, Len |-> n])
    ELSE [heap EXCEPT ![b] = [Off |-> off, Len |-> n]]

\* line 307: Data: buffer[:n], as UploadPart reads it: the first part.Len
\* bytes the part's buffer holds at that time
DataOf(heap, part) ==
    [PartNumber |-> part.PartNumber, Buf |-> part.Buf,
     Off |-> heap[part.Buf].Off, Len |-> part.Len]

NoPart == [PartNumber |-> 0, Buf |-> 0, Off |-> 0, Len |-> 0]

\* ------------------------------------------------------------ io.ReadFull
Min(a, b) == IF a < b THEN a ELSE b

\* How a request body can end: a clean end, an end before the declared
\* Content-Length (net/http reports io.ErrUnexpectedEOF), any other error.
BodyEnds == {"EOF", "Truncated", "Error"}

\* io.ReadFull(r.Body, buffer) with len(buffer) = PartSize, when avail bytes
\* of the body are still to come and the body then ends the way `end` says.
ReadFull(avail, end) ==
    IF avail >= PartSize
    THEN [n |-> PartSize, err |-> NoErr]
    ELSE CASE end = "EOF" ->
                 IF avail = 0 THEN [n |-> 0, err |-> EOF]
                 ELSE [n |-> avail, err |-> ErrUnexpectedEOF]
           [] end = "Truncated" -> [n |-> avail, err |-> ErrUnexpectedEOF]
           [] OTHER -> [n |-> avail, err |-> BodyReadErr]

\* --------------------------------------------------------------- producer
\* err != nil && err != io.EOF && err != io.ErrUnexpectedEOF
IsFatalReadErr(err) == err # NoErr /\ err # EOF /\ err # ErrUnexpectedEOF

\* err == io.EOF || err == io.ErrUnexpectedEOF
IsEndOfBody(err) == err = EOF \/ err = ErrUnexpectedEOF

\* Mutant of ShouldEmit: the guard on n is dropped.
ShouldEmit_Mut(n) == n >= 0

\* if n > 0 { ... partsCh <- ... }
ShouldEmit(n) == n > 0

\* partNumber := 1
FirstPartNumber == 1

\* Mutant of NextPartNumber: the increment is lost.
NextPartNumber_Mut(pn) == pn

\* partNumber++
NextPartNumber(pn) == pn + 1

ProducerIdle == [pc |-> "unstarted", partNumber |-> 0, chunk |-> NoPart,
                 err |-> NoErr]

\* ----------------------------------------------------------------- workers
IdleWorker == [pc |-> "recv", part |-> NoPart, etag |-> NoETag]
DoneWorker == [pc |-> "done", part |-> NoPart, etag |-> NoETag]

Replace(bag, old, new) == (bag (-) SetToBag({old})) (+) SetToBag({new})

\* Mutant of GroupErr: the error of the task that returned last is kept.
GroupErr_Mut(cur, new) == new

\* errgroup: errOnce keeps the first error and cancels the context.
GroupErr(cur, new) == IF cur = NoErr THEN new ELSE cur

\* ------------------------------------------------------- request pipeline
NoRequest == [stack |-> "", method |-> "", uploads |-> FALSE,
              hasUploadId |-> FALSE, uploadId |-> "", xRealIP |-> "",
              xff |-> "", remote |-> ""]

\* What an operation has read: nothing yet.
NoInput == [host |-> <<>>, path |-> <<>>, baseDomain |-> <<>>,
            resolved |-> FALSE, bucket |-> <<>>, key |-> <<>>]

NoAnswer == [status |-> 0, kind |-> "", fields |-> <<>>]

\* The request pipeline at rest (no request under way).
CtrlIdle ==
    /\ rpc = "idle"
    /\ rq = NoRequest
    /\ inp = NoInput
    /\ op = ""
    /\ calls = <<>>
    /\ rsp = NoAnswer

\* ------------------------------------------------------------------- Init
\* executeMultipartPut before its first statement (position "initiate"),
\* or not called at all (position "idle").
SessionStart(position) ==
    /\ pc = position
    /\ bodyPos = 0
    /\ bodyEnd = "open"
    /\ uploadID = ""
    /\ initErr = NoErr
    /\ partsCh = <<>>
    /\ partsClosed = FALSE
    /\ uploadedCh = <<>>
    /\ uploadedClosed = FALSE
    /\ workers = EmptyBag
    /\ producer = ProducerIdle
    /\ gErr = NoErr
    /\ ctxDone = FALSE
    /\ emitted = <<>>
    /\ buffers = <<>>
    /\ lateSends = 0
    /\ uploadCalls = [p \in PartNumbers |-> 0]
    /\ etagRet = [p \in PartNumbers |-> NoETag]
    /\ failedParts = {}
    /\ readErr = NoErr
    /\ abortCalls = 0
    /\ abortErr = NoErr
    /\ completeCalls = 0
    /\ completeErr = NoErr
    /\ uploadedParts = <<>>
    /\ manifest = <<>>
    /\ response = NoResponse

\* The same state as the value of mpVars.
StartState(position) ==
    <<position,
      0,
      "open",
      "",
      NoErr,
      <<>>,
      FALSE,
      <<>>,
      FALSE,
      EmptyBag,
      ProducerIdle,
      NoErr,
      FALSE,
      <<>>,
      <<>>,
      0,
      [p \in PartNumbers |-> 0],
      [p \in PartNumbers |-> NoETag],
      {},
      NoErr,
      0,
      NoErr,
      0,
      NoErr,
      <<>>,
      <<>>,
      NoResponse>>

\* No second call is running.
NoSession == StartState("idle")

\* The context of a request that is being served.
LiveRequest == [done |-> FALSE, inFlight |-> 0]

\* One call of executeMultipartPut at the given position, and no other.
MpStart(position) ==
    /\ SessionStart(position)
    /\ sibling = NoSession
    /\ reqCtx = LiveRequest

\* No executeMultipartPut is running.
MpIdle == MpStart("idle")

Init ==
    /\ MpStart("initiate")
    /\ CtrlIdle

\* ------------------------------------------------- handler: initiate, start
\* Mutant of InitiateNextPc: the return after handleCOSError is missing.
InitiateNextPc_Mut(err) == "start"

\* Where the handler continues after InitiateMultipartUpload returned err.
InitiateNextPc(err) == IF err # NoErr THEN "done" ELSE "start"

\* initResult.UploadID of the other call
SiblingUploadID == sibling[4]

\* The backend names a new session with an id it has not issued before.
NewUploadID(issued) ==
    IF "upload-1" \in issued THEN "upload-2" ELSE "upload-1"

\* lines 249-259: InitiateMultipartUpload; on error handleCOSError and return
InitiateStep ==
    /\ pc = "initiate"
    /\ \E err \in BackendOutcomes :
         /\ initErr' = err
         /\ pc' = InitiateNextPc(err)
         /\ uploadID' = IF err = NoErr
                        THEN NewUploadID({SiblingUploadID})
                        ELSE ""
         /\ response' = IF err # NoErr THEN handleCOSError(err) ELSE response
    /\ UNCHANGED <<bodyPos, bodyEnd, partsCh, partsClosed,
                   uploadedCh, uploadedClosed, workers, producer, gErr,
                   ctxDone, emitted,
                   buffers,
                   lateSends, uploadCalls, etagRet, failedParts,
                   readErr, abortCalls, abortErr, completeCalls, completeErr,
                   uploadedParts, manifest>>

Initiate ==
    /\ InitiateStep
    /\ UNCHANGED <<ctrlVars, sibling, reqCtx>>

\* lines 265-319: make the channels, errgroup.WithContext, g.Go x (5 + 1)
StartGroup ==
    /\ UNCHANGED <<ctrlVars, sibling, reqCtx>>
    /\ pc = "start"
    /\ pc' = "wait"
    /\ workers' = [w \in {IdleWorker} |-> Concurrency]
    /\ producer' = [pc |-> "read", partNumber |-> FirstPartNumber,
                    chunk |-> NoPart, err |-> NoErr]
    /\ UNCHANGED <<bodyPos, bodyEnd, uploadID, initErr, partsCh,
                   partsClosed, uploadedCh, uploadedClosed, gErr, ctxDone,
                   emitted,
                   buffers,
                   lateSends, uploadCalls, etagRet, failedParts, readErr,
                   abortCalls, abortErr, completeCalls, completeErr,
                   uploadedParts, manifest,
                   response>>

\* ------------------------------------------------------------ the errgroup
\* A task started with g.Go returns err: errOnce records the first non-nil
\* error and cancels the group's context.
TaskReturn(err) ==
    /\ gErr' = IF err # NoErr THEN GroupErr(gErr, err) ELSE gErr
    /\ ctxDone' = (ctxDone \/ err # NoErr)

\* ---------------------------------------------------------------- channels
\* Mutant of HasRoom: a send never blocks.
HasRoom_Mut(ch) == TRUE

\* lines 264-265: make(chan ..., concurrency); a send proceeds while the
\* buffer holds fewer than concurrency elements
HasRoom(ch) == Len(ch) < Concurrency

\* Mutant of AfterRecv: a receive leaves the element in the channel.
AfterRecv_Mut(ch) == ch

\* A receive takes the oldest element out of the channel.
AfterRecv(ch) == Tail(ch)

\* ------------------------------------------------------ producer goroutine
\* The producer after it returned ret (its err field keeps the return value).
ProducerDone(ret) == [pc |-> "done", partNumber |-> producer.partNumber,
                      chunk |-> NoPart, err |-> ret]

\* lines 297-305, 314-318: one io.ReadFull and what follows it up to the
\* select, for a body that has one of the lengths avails still to come and
\* ends in one of the ways ends; `defer close(partsCh)` runs on every return.
ReadStep(avails, ends) ==
    /\ UNCHANGED <<ctrlVars, sibling, reqCtx>>
    /\ producer.pc = "read"
    /\ \E avail \in avails, end \in ends :
       LET r == ReadFull(avail, end)
           buffer == Alloc(buffers)
       IN
         /\ bodyPos' = bodyPos + r.n
         /\ buffers' = IF r.n > 0
                       THEN ReadInto(buffers, buffer, bodyPos, r.n)
                       ELSE buffers
         /\ bodyEnd' = IF avail < PartSize THEN end ELSE bodyEnd
         /\ readErr' = r.err
         /\ IF IsFatalReadErr(r.err)
            THEN /\ producer' = ProducerDone(r.err)
                 /\ partsClosed' = TRUE
                 /\ TaskReturn(r.err)
            ELSE IF ShouldEmit(r.n)
            THEN /\ producer' = [producer EXCEPT
                        !.pc = "send",
                        !.chunk = [PartNumber |-> producer.partNumber,
                                   Buf |-> buffer,
                                   Off |-> bodyPos, Len |-> r.n],
                        !.err = r.err]
                 /\ UNCHANGED <<partsClosed, gErr, ctxDone>>
            ELSE IF IsEndOfBody(r.err)
            THEN /\ producer' = ProducerDone(NoErr)
                 /\ partsClosed' = TRUE
                 /\ TaskReturn(NoErr)
            ELSE UNCHANGED <<producer, partsClosed, gErr, ctxDone>>
    /\ UNCHANGED <<pc, uploadID, initErr, partsCh,
                   uploadedCh, uploadedClosed, workers, emitted,
                   lateSends, uploadCalls,
                   etagRet, failedParts, abortCalls, abortErr, completeCalls,
                   completeErr, uploadedParts, manifest, response>>

\* A read of a body of up to MaxStreamLen bytes that ends in any way.
ProducerRead ==
    ReadStep(0..Min(PartSize, MaxStreamLen - bodyPos), BodyEnds)

\* A read of a body of whole parts, up to LongStreamLen bytes, that ends
\* cleanly.
ProducerReadLong ==
    ReadStep({a \in {0, PartSize} : a <= LongStreamLen - bodyPos}, {"EOF"})

\* lines 306-308, 314-318: case partsCh <- partUpload{...}: partNumber++
ProducerSend ==
    /\ UNCHANGED <<ctrlVars, sibling, reqCtx>>
    /\ producer.pc = "send"
    /\ HasRoom(partsCh)
    /\ partsCh' = Append(partsCh, producer.chunk)
    /\ emitted' = Append(emitted, producer.chunk)
    /\ lateSends' = IF ctxDone THEN lateSends + 1 ELSE lateSends
    /\ UNCHANGED buffers
    /\ IF IsEndOfBody(producer.err)
       THEN /\ producer' = [ProducerDone(NoErr) EXCEPT
                   !.partNumber = NextPartNumber(producer.partNumber)]
            /\ partsClosed' = TRUE
            /\ TaskReturn(NoErr)
       ELSE /\ producer' = [producer EXCEPT
                   !.pc = "read",
                   !.partNumber = NextPartNumber(producer.partNumber),
                   !.chunk = NoPart]
            /\ UNCHANGED <<partsClosed, gErr, ctxDone>>
    /\ UNCHANGED <<pc, bodyPos, bodyEnd, uploadID, initErr,
                   uploadedCh, uploadedClosed, workers, uploadCalls, etagRet,
                   failedParts, readErr, abortCalls, abortErr, completeCalls,
                   completeErr, uploadedParts, manifest, response>>

\* lines 309-310: case <-ctx.Done(): return ctx.Err()
ProducerCancelled ==
    /\ UNCHANGED <<ctrlVars, sibling, reqCtx>>
    /\ producer.pc = "send"
    /\ ctxDone
    /\ producer' = ProducerDone(Canceled)
    /\ partsClosed' = TRUE
    /\ TaskReturn(Canceled)
    /\ UNCHANGED <<pc, bodyPos, bodyEnd, uploadID, initErr, partsCh,
                   uploadedCh, uploadedClosed, workers, emitted,
                   buffers,
                   lateSends, uploadCalls,
                   etagRet, failedParts, readErr, abortCalls, abortErr,
                   completeCalls, completeErr, uploadedParts, manifest,
                   response>>

\* -------------------------------------------------------- worker goroutines
WorkerFrame == <<pc, bodyPos, bodyEnd, uploadID, initErr,
                 partsClosed, uploadedClosed, producer, emitted,
                 buffers,
                 lateSends, readErr,
                 abortCalls, abortErr, completeCalls, completeErr,
                 uploadedParts, manifest,
                 response>>

\* line 272: for part := range partsCh (a part is received)
WorkerRecv ==
    /\ UNCHANGED <<ctrlVars, sibling, reqCtx>>
    /\ partsCh # <<>>
    /\ \E w \in BagToSet(workers) :
         /\ w.pc = "recv"
         /\ workers' = Replace(workers, w,
                [pc |-> "select", part |-> Head(partsCh), etag |-> NoETag])
    /\ partsCh' = AfterRecv(partsCh)
    /\ UNCHANGED WorkerFrame
    /\ UNCHANGED <<uploadedCh, gErr, ctxDone, uploadCalls, etagRet,
                   failedParts>>

\* lines 272, 288: partsCh is closed and empty, the range ends: return nil
WorkerExit ==
    /\ UNCHANGED <<ctrlVars, sibling, reqCtx>>
    /\ partsCh = <<>>
    /\ partsClosed
    /\ \E w \in BagToSet(workers) :
         /\ w.pc = "recv"
         /\ workers' = Replace(workers, w, DoneWorker)
    /\ TaskReturn(NoErr)
    /\ UNCHANGED WorkerFrame
    /\ UNCHANGED <<partsCh, uploadedCh, uploadCalls, etagRet, failedParts>>

\* Mutant of SeesCancel: the worker does not look at the context.
SeesCancel_Mut(done) == FALSE

\* lines 274-276: case <-ctx.Done() is taken when the context is cancelled
SeesCancel(done) == done

\* lines 273-278: select on ctx.Done(); default: the UploadPart call starts
WorkerSelect ==
    /\ UNCHANGED <<ctrlVars, sibling, reqCtx>>
    /\ \E w \in BagToSet(workers) :
         /\ w.pc = "select"
         /\ IF SeesCancel(ctxDone)
            THEN /\ workers' = Replace(workers, w, DoneWorker)
                 /\ TaskReturn(Canceled)
                 /\ UNCHANGED uploadCalls
            ELSE /\ workers' = Replace(workers, w, [w EXCEPT !.pc = "upload"])
                 /\ uploadCalls' = [uploadCalls EXCEPT
                        ![w.part.PartNumber] = @ + 1]
                 /\ UNCHANGED <<gErr, ctxDone>>
    /\ UNCHANGED WorkerFrame
    /\ UNCHANGED <<partsCh, uploadedCh, etagRet, failedParts>>

\* lines 278-283: UploadPart returns, for a backend that may accept the
\* parts numbered in accepts and may reject those in rejects; on error the
\* worker returns it
UploadStep(accepts, rejects) ==
    /\ UNCHANGED <<ctrlVars, sibling, reqCtx>>
    /\ \E w \in BagToSet(workers) :
         /\ w.pc = "upload"
         /\ \E ok \in {b \in BOOLEAN :
                          w.part.PartNumber \in (IF b THEN accepts
                                                 ELSE rejects)} :
              IF ok
              THEN /\ workers' = Replace(workers, w,
                          [w EXCEPT !.pc = "send",
                                    !.etag = BackendETag(
                                                 DataOf(buffers, w.part))])
                   /\ etagRet' = [etagRet EXCEPT
                          ![w.part.PartNumber] =
                              BackendETag(DataOf(buffers, w.part))]
                   /\ UNCHANGED <<gErr, ctxDone, failedParts>>
              ELSE /\ workers' = Replace(workers, w, DoneWorker)
                   /\ failedParts' = failedParts \cup {w.part.PartNumber}
                   /\ TaskReturn(IF ctxDone THEN Canceled
                                 ELSE CosErr(500, w.part.PartNumber))
                   /\ UNCHANGED etagRet
    /\ UNCHANGED WorkerFrame
    /\ UNCHANGED <<partsCh, uploadedCh, uploadCalls>>

\* A backend that may accept or reject any part.
WorkerUploadReturn == UploadStep(PartNumbers, PartNumbers)

\* The number of the second part.
SecondPart == NextPartNumber(FirstPartNumber)

\* A backend that accepts the second part and rejects the others.
WorkerUploadReturnSecondOnly ==
    UploadStep({SecondPart}, PartNumbers \ {SecondPart})

\* line 284: uploadedCh <- uploadedPart{PartNumber, ETag}
WorkerSend ==
    /\ UNCHANGED <<ctrlVars, sibling, reqCtx>>
    /\ HasRoom(uploadedCh)
    /\ \E w \in BagToSet(workers) :
         /\ w.pc = "send"
         /\ uploadedCh' = Append(uploadedCh,
                [PartNumber |-> w.part.PartNumber, ETag |-> w.etag])
         /\ workers' = Replace(workers, w, IdleWorker)
    /\ UNCHANGED WorkerFrame
    /\ UNCHANGED <<partsCh, gErr, ctxDone, uploadCalls, etagRet, failedParts>>

\* ------------------------------------------- handler: wait, abort, complete
\* Mutant of AllTasksDone: g.Wait returns once the producer returned.
AllTasksDone_Mut == producer.pc = "done"

\* g.Wait: wg.Wait() over the six tasks started with g.Go
AllTasksDone ==
    /\ producer.pc = "done"
    /\ BagToSet(workers) \subseteq {DoneWorker}

\* Mutant of WaitFailed: the error of g.Wait is ignored.
WaitFailed_Mut(err) == FALSE

\* if err := g.Wait(); err != nil
WaitFailed(err) == err # NoErr

\* line 322: g.Wait() returns once every task returned, and cancels the
\* context
Wait ==
    /\ UNCHANGED <<ctrlVars, sibling, reqCtx>>
    /\ pc = "wait"
    /\ AllTasksDone
    /\ ctxDone' = TRUE
    /\ pc' = IF WaitFailed(gErr) THEN "abort" ELSE "collect"
    /\ UNCHANGED <<bodyPos, bodyEnd, uploadID, initErr, partsCh,
                   partsClosed, uploadedCh, uploadedClosed, workers,
                   producer, gErr, emitted, buffers, lateSends,
                   uploadCalls, etagRet, failedParts, readErr, abortCalls,
                   abortErr, completeCalls, completeErr, uploadedParts,
                   manifest, response>>

\* Mutant of AbortResponse: a failed abort replaces the original error.
AbortResponse_Mut(err, aerr) ==
    IF aerr # NoErr THEN handleCOSError(aerr)
    ELSE [status |-> 500, body |-> <<"Multipart upload failed: ", err>>]

\* line 329: http.Error(w, "Multipart upload failed: "+err.Error(), 500);
\* abortErr is only logged (lines 326-328)
AbortResponse(err, aerr) ==
    [status |-> 500, body |-> <<"Multipart upload failed: ", err>>]

\* Mutant of AbortNextPc: the return at the end of the abort path is missing.
AbortNextPc_Mut == "collect"

\* line 330: return
AbortNextPc == "done"

\* lines 323-330: AbortMultipartUpload, log, error response, return
Abort ==
    /\ UNCHANGED <<ctrlVars, sibling, reqCtx>>
    /\ pc = "abort"
    /\ \E aerr \in BackendOutcomes :
         /\ abortErr' = aerr
         /\ response' = AbortResponse(gErr, aerr)
    /\ abortCalls' = abortCalls + 1
    /\ pc' = AbortNextPc
    /\ UNCHANGED <<bodyPos, bodyEnd, uploadID, initErr, partsCh,
                   partsClosed, uploadedCh, uploadedClosed, workers, producer,
                   gErr, ctxDone, emitted,
                   buffers,
                   lateSends, uploadCalls, etagRet, failedParts,
                   readErr, completeCalls, completeErr, uploadedParts,
                   manifest>>

\* lines 339-341: sort.Slice(uploadedParts, by PartNumber ascending)
RECURSIVE InsertPart(_, _)
InsertPart(sorted, p) ==
    IF sorted = <<>> THEN <<p>>
    ELSE IF p.PartNumber < Head(sorted).PartNumber THEN <<p>> \o sorted
    ELSE <<Head(sorted)>> \o InsertPart(Tail(sorted), p)

\* Mutant of SortParts: the results are submitted in arrival order.
SortParts_Mut(parts) == parts

RECURSIVE SortParts(_)
SortParts(parts) ==
    IF parts = <<>> THEN <<>>
    ELSE InsertPart(SortParts(Tail(parts)), Head(parts))

\* lines 354-365: the 200 response with the CompleteMultipartUploadResult
CompleteResponse == [status |-> 200,
                     body |-> <<"CompleteMultipartUploadResult">>]

\* lines 332-365: close and drain uploadedCh, sort, CompleteMultipartUpload,
\* respond
Complete ==
    /\ UNCHANGED <<ctrlVars, sibling, reqCtx>>
    /\ pc = "collect"
    /\ uploadedClosed' = TRUE
    /\ uploadedParts' = uploadedCh
    /\ manifest' = SortParts(uploadedCh)
    /\ uploadedCh' = <<>>
    /\ completeCalls' = completeCalls + 1
    /\ \E cerr \in BackendOutcomes :
         /\ completeErr' = cerr
         /\ response' = IF cerr # NoErr THEN handleCOSError(cerr)
                        ELSE CompleteResponse
    /\ pc' = "done"
    /\ UNCHANGED <<bodyPos, bodyEnd, uploadID, initErr, partsCh,
                   partsClosed, workers, producer, gErr,
                   ctxDone, emitted,
                   buffers,
                   lateSends, uploadCalls, etagRet, failedParts,
                   readErr, abortCalls, abortErr>>

Next ==
    \/ Initiate
    \/ StartGroup
    \/ ProducerRead
    \/ ProducerSend
    \/ ProducerCancelled
    \/ WorkerRecv
    \/ WorkerExit
    \/ WorkerSelect
    \/ WorkerUploadReturn
    \/ WorkerSend
    \/ Wait
    \/ Abort
    \/ Complete

Spec == Init /\ [][Next]_vars

\* executeMultipartPut on bodies of up to LongParts whole parts, with a
\* backend that accepts the second part only.
NextLong ==
    \/ Initiate
    \/ StartGroup
    \/ ProducerReadLong
    \/ ProducerSend
    \/ ProducerCancelled
    \/ WorkerRecv
    \/ WorkerExit
    \/ WorkerSelect
    \/ WorkerUploadReturnSecondOnly
    \/ WorkerSend
    \/ Wait
    \/ Abort
    \/ Complete

SpecLong == Init /\ [][NextLong]_vars

\* Two calls of executeMultipartPut, for two requests served at the same
\* time, with bodies of up to MaxPairParts parts each.
MaxPairParts == 2

\* Mutant of GroupContext: one context, made once, is shared by all calls.
GroupContext_Mut(own, current) == current

\* line 267: g, ctx := errgroup.WithContext(context.Background()) is a
\* local of the call: the call that goes on has its own context
GroupContext(own, current) == own

\* The scheduler turns to the other call: its locals (lines 245-267 and
\* the goroutines' own) become the ones the actions work on.
SwitchSession ==
    /\ sibling[1] # "idle"
    /\ sibling' = mpVars
    /\ UNCHANGED reqCtx
    /\ pc' = sibling[1]
    /\ bodyPos' = sibling[2]
    /\ bodyEnd' = sibling[3]
    /\ uploadID' = sibling[4]
    /\ initErr' = sibling[5]
    /\ partsCh' = sibling[6]
    /\ partsClosed' = sibling[7]
    /\ uploadedCh' = sibling[8]
    /\ uploadedClosed' = sibling[9]
    /\ workers' = sibling[10]
    /\ producer' = sibling[11]
    /\ gErr' = sibling[12]
    /\ ctxDone' = GroupContext(sibling[13], ctxDone)
    /\ emitted' = sibling[14]
    /\ buffers' = sibling[15]
    /\ lateSends' = sibling[16]
    /\ uploadCalls' = sibling[17]
    /\ etagRet' = sibling[18]
    /\ failedParts' = sibling[19]
    /\ readErr' = sibling[20]
    /\ abortCalls' = sibling[21]
    /\ abortErr' = sibling[22]
    /\ completeCalls' = sibling[23]
    /\ completeErr' = sibling[24]
    /\ uploadedParts' = sibling[25]
    /\ manifest' = sibling[26]
    /\ response' = sibling[27]
    /\ UNCHANGED ctrlVars

PairStreamLen == MaxPairParts * PartSize

\* A read of a body of up to MaxPairParts whole parts that ends in any way.
ProducerReadPair ==
    ReadStep({a \in {0, PartSize} : a <= PairStreamLen - bodyPos}, BodyEnds)

PairInit ==
    /\ SessionStart("initiate")
    /\ sibling = StartState("initiate")
    /\ reqCtx = LiveRequest
    /\ CtrlIdle

NextPair ==
    \/ Initiate
    \/ StartGroup
    \/ ProducerReadPair
    \/ ProducerSend
    \/ ProducerCancelled
    \/ WorkerRecv
    \/ WorkerExit
    \/ WorkerSelect
    \/ WorkerUploadReturn
    \/ WorkerSend
    \/ Wait
    \/ Abort
    \/ Complete
    \/ SwitchSession

SpecPair == PairInit /\ [][NextPair]_vars

\* Mutant of GroupParent: the group's context is derived from r.Context().
GroupParent_Mut == "Request"

\* lines 253, 267, 325, 344: the contexts of the backend calls and of the
\* errgroup are context.Background() and derived from it
GroupParent == "Background"

\* The inbound request's context ends while the handler runs: the client
\* went away or a deadline of the request passed. A context derived from
\* it ends with it; one derived from context.Background() does not.
RequestCancelled ==
    /\ pc \in {"initiate", "start", "wait", "abort", "collect"}
    /\ ~reqCtx.done
    /\ reqCtx' = [done |-> TRUE,
                  inFlight |-> BagCardinality(
                      [w \in {x \in BagToSet(workers) : x.pc = "upload"}
                          |-> workers[w]])]
    /\ ctxDone' = IF GroupParent = "Request" THEN TRUE ELSE ctxDone
    /\ UNCHANGED <<pc, bodyPos, bodyEnd, uploadID, initErr, partsCh,
                   partsClosed, uploadedCh, uploadedClosed, workers,
                   producer, gErr, emitted, buffers, lateSends,
                   uploadCalls, etagRet, failedParts, readErr, abortCalls,
                   abortErr, completeCalls, completeErr, uploadedParts,
                   manifest, response>>
    /\ UNCHANGED <<ctrlVars, sibling>>

\* One call of executeMultipartPut, on a body of up to MaxPairParts whole
\* parts, whose request may be cancelled at any moment.
NextCancel ==
    \/ Initiate
    \/ StartGroup
    \/ ProducerReadPair
    \/ ProducerSend
    \/ ProducerCancelled
    \/ WorkerRecv
    \/ WorkerExit
    \/ WorkerSelect
    \/ WorkerUploadReturn
    \/ WorkerSend
    \/ Wait
    \/ Abort
    \/ Complete
    \/ RequestCancelled

SpecCancel == Init /\ [][NextCancel]_vars

\* ===================================================================
\* One request through the whitelist middleware and the S3Controller
\* ===================================================================

\* ---------------------------------------------------------------- strings
\* A string of the program is the sequence of its characters.
\* strings.HasPrefix
HasPrefix(s, prefix) ==
    /\ Len(prefix) <= Len(s)
    /\ SubSeq(s, 1, Len(prefix)) = prefix

\* strings.HasSuffix
HasSuffix(s, suffix) ==
    /\ Len(suffix) <= Len(s)
    /\ SubSeq(s, Len(s) - Len(suffix) + 1, Len(s)) = suffix

\* strings.TrimPrefix
TrimPrefix(s, prefix) ==
    IF HasPrefix(s, prefix) THEN SubSeq(s, Len(prefix) + 1, Len(s)) ELSE s

\* strings.TrimSuffix
TrimSuffix(s, suffix) ==
    IF HasSuffix(s, suffix) THEN SubSeq(s, 1, Len(s) - Len(suffix)) ELSE s

\* strings.Index(s, sep) for a one-character sep, counted from 1; 0 if absent
Index(s, sep) ==
    IF \E i \in 1..Len(s) : s[i] = sep
    THEN CHOOSE i \in 1..Len(s) :
            /\ s[i] = sep
            /\ \A j \in 1..(i - 1) : s[j] # sep
    ELSE 0

\* Mutant of SplitN2: the split is at the last separator.
SplitN2_Mut(s, sep) ==
    IF \E i \in 1..Len(s) : s[i] = sep
    THEN LET i == CHOOSE k \in 1..Len(s) :
                     /\ s[k] = sep
                     /\ \A j \in (k + 1)..Len(s) : s[j] # sep
         IN <<SubSeq(s, 1, i - 1), SubSeq(s, i + 1, Len(s))>>
    ELSE <<s>>

\* strings.SplitN(s, sep, 2) for a one-character sep
SplitN2(s, sep) ==
    LET i == Index(s, sep) IN
    IF i = 0 THEN <<s>>
    ELSE <<SubSeq(s, 1, i - 1), SubSeq(s, i + 1, Len(s))>>

RECURSIVE TrimLeft(_, _)
\* strings.TrimLeft(s, cutset) for a one-character cutset
TrimLeft(s, c) ==
    IF s # <<>> /\ Head(s) = c THEN TrimLeft(Tail(s), c) ELSE s

RECURSIVE TrimRight(_, _)
\* strings.TrimRight(s, cutset) for a one-character cutset
TrimRight(s, c) ==
    IF s # <<>> /\ s[Len(s)] = c
    THEN TrimRight(SubSeq(s, 1, Len(s) - 1), c)
    ELSE s

\* strings.Trim(s, cutset) for a one-character cutset: every leading and
\* every trailing occurrence is removed.
Trim(s, c) == TrimRight(TrimLeft(s, c), c)

\* ---------------------------------------------------- extractBucketAndKey
\* s3_controller.go lines 514-524: the path-style fallback
PathStyle(path) ==
    LET parts == SplitN2(TrimPrefix(path, <<"/">>), "/") IN
    [bucket |-> parts[1],
     key |-> IF Len(parts) = 2 THEN parts[2] ELSE <<>>]

\* S3Controller.extractBucketAndKey, with c.Request.Host, c.Param("path")
\* and ctrl.BaseDomain as arguments
extractBucketAndKey(host, path, baseDomain) ==
    IF baseDomain # <<>> /\ HasSuffix(host, baseDomain)
    THEN LET potentialBucket == TrimSuffix(host, <<".">> \o baseDomain) IN
         IF potentialBucket # <<>> /\ potentialBucket # host
         THEN [bucket |-> potentialBucket,
               key |-> TrimPrefix(path, <<"/">>)]
         ELSE PathStyle(path)
    ELSE PathStyle(path)

\* The inputs of extractBucketAndKey.  ctrl.BaseDomain is "" or "e.c".
BaseDomains == {<<>>, <<"e", ".", "c">>}

Hosts ==
    {<<"b", ".", "e", ".", "c">>,
     <<"e", ".", "c">>,
     <<".", "e", ".", "c">>,
     <<"x", "e", ".", "c">>,
     <<"o", ".", "g">>,
     <<"b", ".", "e", ".", "c", ":", "1">>}

\* c.Param("path") of the route "/*path" always begins with a slash.
Paths ==
    {<<"/">>,
     <<"/", "a">>,
     <<"/", "a", "/", "b">>,
     <<"/", "b", "/", "a">>,
     <<"/", "b", "/", "a", "/", "b">>,
     <<"/", "/", "a">>,
     <<"/", "b", "/">>}

\* What an operation has read of its request, before it has read anything
\* more than the address.
AddrInput(host, path, baseDomain) ==
    [host |-> host, path |-> path, baseDomain |-> baseDomain,
     resolved |-> FALSE, bucket |-> <<>>, key |-> <<>>]

\* The address read and resolved by extractBucketAndKey.
Resolved(host, path, baseDomain) ==
    LET r == extractBucketAndKey(host, path, baseDomain) IN
    [host |-> host, path |-> path, baseDomain |-> baseDomain,
     resolved |-> TRUE, bucket |-> r.bucket, key |-> r.key]

\* AddrSpec: extractBucketAndKey applied to one address.
AddrInit ==
    /\ MpIdle
    /\ rpc = "resolve"
    /\ rq = NoRequest
    /\ \E h \in Hosts, p \in Paths, d \in BaseDomains :
          inp = AddrInput(h, p, d)
    /\ op = ""
    /\ calls = <<>>
    /\ rsp = NoAnswer

ResolveAddress ==
    /\ rpc = "resolve"
    /\ inp' = Resolved(inp.host, inp.path, inp.baseDomain)
    /\ rpc' = "done"
    /\ UNCHANGED <<rq, op, calls, rsp>>
    /\ UNCHANGED <<mpVars, sibling, reqCtx>>

AddrNext == ResolveAddress

AddrSpec == AddrInit /\ [][AddrNext]_vars

\* ------------------------------------------------------ the request's fields
Methods == {"GET", "HEAD", "PUT", "POST", "DELETE", "PATCH"}

\* Addresses: IpA is whitelisted, IpB is not.
IpA == "10.0.0.1"
IpB == "203.0.113.9"
\* allowedIPs as main builds it (never holds the empty string)
AllowedIPs == {IpA}

\* r.RemoteAddr: "ip:port" with the ip IpA or IpB, ":port" (empty host),
\* or a text net.SplitHostPort cannot split.
BadRemoteAddr == "bad"
RemoteAddrs == {IpA, IpB, "", BadRemoteAddr}

\* The requests: which server stack receives it ("gin": part_001 with the
\* S3Controller, "nethttp": part_000 with COSProxyHandler), the method, the
\* query markers, the headers the middleware reads, the remote address.
Requests ==
    [stack : {"gin", "nethttp"},
     method : Methods,
     uploads : BOOLEAN,
     hasUploadId : BOOLEAN,
     uploadId : {"", "upload-1"},
     xRealIP : {"", IpA, IpB},
     xff : {"", IpA},
     remote : RemoteAddrs]

\* ------------------------------------------------- ipWhitelistMiddleware
\* net.SplitHostPort(r.RemoteAddr)
SplitHostPort(remote) ==
    IF remote = BadRemoteAddr THEN [host |-> "", err |-> TRUE]
    ELSE [host |-> remote, err |-> FALSE]

\* r.Method == http.MethodGet || r.Method == http.MethodHead
IsReadMethod(method) == method = "GET" \/ method = "HEAD"

\* part_000, ipWhitelistMiddleware: "next", or the status it answers.
HTTPWhitelistVerdict(r) ==
    IF IsReadMethod(r.method) THEN "next"
    ELSE IF r.xRealIP # ""
    THEN IF r.xRealIP \in AllowedIPs THEN "next" ELSE "403"
    ELSE LET s == SplitHostPort(r.remote) IN
         IF s.err THEN "400"
         ELSE IF s.host = "" THEN "403 unknown"
         ELSE IF s.host \in AllowedIPs THEN "next" ELSE "403"

\* gin's c.ClientIP() as gin.Default() configures it (every proxy trusted,
\* RemoteIPHeaders X-Forwarded-For then X-Real-IP): "" when the remote
\* address has no parsable ip, else a valid address of X-Forwarded-For, else
\* of X-Real-IP, else the remote ip.
GinClientIP(r) ==
    IF r.remote = BadRemoteAddr \/ r.remote = "" THEN ""
    ELSE IF r.xff # "" THEN r.xff
    ELSE IF r.xRealIP # "" THEN r.xRealIP
    ELSE r.remote

\* part_001, ipWhitelistMiddleware: "next", or the status it answers.
GinWhitelistVerdict(r) ==
    IF IsReadMethod(r.method) THEN "next"
    ELSE LET clientIP == IF r.xRealIP # "" THEN r.xRealIP
                         ELSE GinClientIP(r) IN
         IF clientIP \in AllowedIPs THEN "next" ELSE "403"

Answer(status, kind, fields) ==
    [status |-> status, kind |-> kind, fields |-> fields]

\* c.XML(status, gin.H{"error": message})
XMLError(status, message) == Answer(status, "xml", [error |-> message])

\* part_001 lines 57-80: the gin middleware; c.Next() runs the dispatcher
WhitelistGin ==
    /\ rpc = "middleware"
    /\ rq.stack = "gin"
    /\ LET v == GinWhitelistVerdict(rq) IN
         IF v = "next"
         THEN /\ rpc' = "dispatch"
              /\ UNCHANGED rsp
         ELSE /\ rpc' = "done"
              /\ rsp' = Answer(403, "json", <<"Forbidden: IP not allowed">>)
    /\ UNCHANGED <<rq, inp, op, calls>>
    /\ UNCHANGED <<mpVars, sibling, reqCtx>>

\* part_000 lines 64-106: the net/http middleware; next.ServeHTTP is
\* COSProxyHandler.ServeHTTP
WhitelistHTTP ==
    /\ rpc = "middleware"
    /\ rq.stack = "nethttp"
    /\ LET v == HTTPWhitelistVerdict(rq) IN
         CASE v = "next" -> /\ rpc' = "servehttp"
                            /\ UNCHANGED rsp
           [] v = "400" -> /\ rpc' = "done"
                           /\ rsp' = Answer(400, "text", <<"Bad Request">>)
           [] v = "403 unknown" ->
                  /\ rpc' = "done"
                  /\ rsp' = Answer(403, "text", <<"Forbidden">>)
           [] OTHER ->
                  /\ rpc' = "done"
                  /\ rsp' = Answer(403, "text",
                                   <<"Forbidden: IP not allowed">>)
    /\ UNCHANGED <<rq, inp, op, calls>>
    /\ UNCHANGED <<mpVars, sibling, reqCtx>>

\* ----------------------------------------------------- s3RequestDispatcher
\* Mutant of MultipartOperation: DELETE falls to the default case.
MultipartOperation_Mut(method) ==
    CASE method = "PUT" -> "UploadPart"
      [] method = "POST" -> "CompleteMultipartUpload"
      [] OTHER -> "400"

\* lines 56-68: the switch on the method of a request that has uploadId
MultipartOperation(method) ==
    CASE method = "PUT" -> "UploadPart"
      [] method = "POST" -> "CompleteMultipartUpload"
      [] method = "DELETE" -> "AbortMultipartUpload"
      [] OTHER -> "400"

\* lines 73-85: the switch on the method of any other request
ObjectOperation(method) ==
    CASE method = "GET" -> "GetObject"
      [] method = "PUT" -> "PutObject"
      [] method = "POST" -> "PostObject"
      [] method = "DELETE" -> "DeleteObject"
      [] OTHER -> "405"

\* Mutant of Dispatch: the method is looked at before the uploadId marker.
Dispatch_Mut(uploads, hasUploadId, method) ==
    IF uploads THEN "CreateMultipartUpload"
    ELSE IF method = "GET" \/ method = "PUT"
    THEN ObjectOperation(method)
    ELSE IF hasUploadId THEN MultipartOperation(method)
    ELSE ObjectOperation(method)

\* The operation s3RequestDispatcher invokes, or the status it answers.
Dispatch(uploads, hasUploadId, method) ==
    IF uploads THEN "CreateMultipartUpload"
    ELSE IF hasUploadId THEN MultipartOperation(method)
    ELSE ObjectOperation(method)

\* s3_controller.go lines 44-86
DispatchRequest ==
    /\ rpc = "dispatch"
    /\ LET d == Dispatch(rq.uploads, rq.hasUploadId, rq.method) IN
         /\ op' = d
         /\ CASE d = "400" ->
                  /\ rpc' = "done"
                  /\ rsp' = XMLError(400,
                         "Invalid request method for multipart upload.")
              [] d = "405" ->
                  /\ rpc' = "done"
                  /\ rsp' = XMLError(405, "Method not allowed.")
              [] OTHER ->
                  /\ rpc' = d
                  /\ UNCHANGED rsp
    /\ UNCHANGED <<rq, inp, calls>>
    /\ UNCHANGED <<mpVars, sibling, reqCtx>>

\* ------------------------------------------------ the backend, as the
\* S3Controller sees it
S3Err(kind, status, code, message, requestID) ==
    [kind |-> kind, status |-> status, code |-> code, message |-> message,
     requestID |-> requestID]

\* err == nil
S3Nil == S3Err("nil", 0, "", "", "")

\* *cos.ErrorResponse: the SDK builds one for a response whose status is not
\* 2xx; it carries the response, Code, Message and RequestID.
CosErrorResponses ==
    {S3Err("cos", 403, "AccessDenied", "Access Denied.", "req-1"),
     S3Err("cos", 404, "NoSuchUpload", "The upload does not exist.", "req-2"),
     S3Err("cos", 503, "SlowDown", "Reduce your request rate.", "req-3")}

\* any other error value (transport failure, cancelled context)
OtherErrors == {S3Err("other", 0, "", "dial tcp: i/o timeout", "")}

\* The ETag values of a backend response: none, unquoted, quoted.
BackendETags == {<<>>, <<"a", "1">>, <<"\"", "a", "1", "\"">>}

\* What a backend call returns: an error, or a response with a 2xx status
\* and one of the given ETags.
Outcomes(status, etags) ==
    {[err |-> S3Nil, status |-> status, etag |-> e] : e \in etags}
    \cup {[err |-> e, status |-> 0, etag |-> <<>>] :
             e \in CosErrorResponses \cup OtherErrors}

\* Mutant of CtrlHandleCOSError: every failure is answered as an internal
\* error.
CtrlHandleCOSError_Mut(err) ==
    Answer(500, "error", [Code |-> "InternalError", Message |-> err.message])

\* S3Controller.handleCOSError (s3_controller.go lines 542-570)
CtrlHandleCOSError(err) ==
    IF err.kind = "cos"
    THEN Answer(err.status, "error",
                [Code |-> err.code, Message |-> err.message,
                 RequestId |-> err.requestID])
    ELSE Answer(500, "error",
                [Code |-> "InternalError", Message |-> err.message])

\* ----------------------------------------------------- the request's headers
\* strings.ToLower on the letters the header names use
LowerChar(c) ==
    CASE c = "X" -> "x"
      [] c = "A" -> "a"
      [] c = "M" -> "m"
      [] c = "K" -> "k"
      [] c = "C" -> "c"
      [] OTHER -> c

ToLower(s) == [i \in 1..Len(s) |-> LowerChar(s[i])]

UpperChar(c) ==
    CASE c = "x" -> "X"
      [] c = "a" -> "A"
      [] c = "m" -> "M"
      [] c = "k" -> "K"
      [] c = "c" -> "C"
      [] OTHER -> c

\* http.Header.Set stores a value under the canonical form of the name: the
\* first letter and every letter after a hyphen in upper case, the others
\* in lower case (textproto.CanonicalMIMEHeaderKey).
CanonicalMIMEHeaderKey(s) ==
    [i \in 1..Len(s) |-> IF i = 1 \/ s[i - 1] = "-"
                         THEN UpperChar(s[i])
                         ELSE LowerChar(s[i])]

AmzMetaPrefix == <<"x", "-", "a", "m", "z", "-", "m", "e", "t", "a", "-">>
CosMetaPrefix == <<"x", "-", "c", "o", "s", "-", "m", "e", "t", "a", "-">>

\* Header names as net/http canonicalises them.
HdrAmzMetaK == <<"X", "-", "A", "m", "z", "-", "M", "e", "t", "a", "-", "K">>
HdrAmzMetaAM ==
    <<"X", "-", "A", "m", "z", "-", "M", "e", "t", "a", "-", "A", "-", "M">>
HdrOtherK == <<"X", "-", "K">>

\* The headers an operation reads: Content-Type, Content-Length
\* (c.Request.ContentLength, -1 when unknown), Content-MD5, Range and the
\* remaining headers as a map from name to the list of its values.
RequestHeaders ==
    {[contentType |-> "", contentLength |-> -1, contentMD5 |-> "",
      range |-> "", other |-> <<>>],
     [contentType |-> "text/plain", contentLength |-> 5,
      contentMD5 |-> "md5", range |-> "bytes=0-1",
      other |-> (HdrAmzMetaK :> <<"v1", "v2">> @@
                 HdrAmzMetaAM :> <<"v4">> @@ HdrOtherK :> <<"v3">>)],
     [contentType |-> "text/plain", contentLength |-> 0, contentMD5 |-> "",
      range |-> "", other |-> (HdrOtherK :> <<"v3">>)]}

\* lines 110-119 and 276-284: the x-amz-meta-* headers renamed to
\* x-cos-meta-*, each with the first of its values
XCosMetaXXX_Mut(other) ==
    LET metas == {h \in DOMAIN other : HasPrefix(ToLower(h), AmzMetaPrefix)}
        cosMetaKey(h) ==
            CosMetaPrefix \o TrimPrefix(ToLower(h), AmzMetaPrefix)
        stored(h) == CanonicalMIMEHeaderKey(cosMetaKey(h))
    IN [n \in {stored(h) : h \in metas} |->
           LET h == CHOOSE g \in metas : stored(g) = n
           IN other[h][Len(other[h])]]
XCosMetaXXX(other) ==
    LET metas == {h \in DOMAIN other : HasPrefix(ToLower(h), AmzMetaPrefix)}
        cosMetaKey(h) ==
            CosMetaPrefix \o TrimPrefix(ToLower(h), AmzMetaPrefix)
        stored(h) == CanonicalMIMEHeaderKey(cosMetaKey(h))
    IN [n \in {stored(h) : h \in metas} |->
           LET h == CHOOSE g \in metas : stored(g) = n IN other[h][1]]

\* The addresses the operations are run on: virtual-hosted and path style,
\* each with and without an object key, and with the buckets b and x.
CtrlAddresses ==
    {[host |-> <<"b", ".", "e", ".", "c">>, path |-> <<"/", "a">>,
      baseDomain |-> <<"e", ".", "c">>],
     [host |-> <<"x", ".", "e", ".", "c">>, path |-> <<"/", "a">>,
      baseDomain |-> <<"e", ".", "c">>],
     [host |-> <<"o", ".", "g">>, path |-> <<"/", "x", "/", "a">>,
      baseDomain |-> <<"e", ".", "c">>],
     [host |-> <<"b", ".", "e", ".", "c">>, path |-> <<"/">>,
      baseDomain |-> <<"e", ".", "c">>],
     [host |-> <<"o", ".", "g">>, path |-> <<"/", "b", "/", "a">>,
      baseDomain |-> <<"e", ".", "c">>],
     [host |-> <<"o", ".", "g">>, path |-> <<"/", "b">>,
      baseDomain |-> <<>>]}

\* Mutant of BackendKey: the backend is asked for bucket/key.
BackendKey_Mut(in) == in.bucket \o <<"/">> \o in.key

\* _, key := ctrl.extractBucketAndKey(c), or bucket, key := ...: the key is
\* what every operation hands to the backend
BackendKey(in) == in.key

\* A backend call of the history.
Call(name, key, args) == [op |-> name, key |-> key, args |-> args]

\* The operation ends: what it read, the calls it made, its answer.
Finish(in, newCalls, answer) ==
    /\ inp' = in
    /\ calls' = calls \o newCalls
    /\ rsp' = answer
    /\ rpc' = "done"
    /\ UNCHANGED <<rq, op>>
    /\ UNCHANGED <<mpVars, sibling, reqCtx>>

\* ------------------------------------------------- single object operations
\* lines 94-136
PutObject ==
    /\ rpc = "PutObject"
    /\ \E a \in CtrlAddresses, h \in RequestHeaders,
          out \in Outcomes(200, BackendETags) :
         LET in == Resolved(a.host, a.path, a.baseDomain) IN
         IF in.key = <<>>
         THEN Finish(in, <<>>, XMLError(400, "Invalid key"))
         ELSE LET opt == [ContentType |-> h.contentType,
                          ContentLength |-> h.contentLength,
                          XCosMetaXXX |-> XCosMetaXXX(h.other)]
                  read == in @@ [headers |-> h, out |-> out]
              IN IF out.err # S3Nil
                 THEN Finish(read, <<Call("Put", BackendKey(in), opt)>>,
                             CtrlHandleCOSError(out.err))
                 ELSE Finish(read, <<Call("Put", BackendKey(in), opt)>>,
                             Answer(out.status, "passthrough",
                                    [ETag |-> out.etag]))

\* lines 140-170
GetObject ==
    /\ rpc = "GetObject"
    /\ \E a \in CtrlAddresses, h \in RequestHeaders,
          out \in Outcomes(200, BackendETags) :
         LET in == Resolved(a.host, a.path, a.baseDomain) IN
         IF in.key = <<>>
         THEN Finish(in, <<>>, XMLError(400, "Invalid key"))
         ELSE LET opt == [Range |-> h.range]
                  read == in @@ [headers |-> h, out |-> out]
              IN IF out.err # S3Nil
                 THEN Finish(read, <<Call("Get", BackendKey(in), opt)>>,
                             CtrlHandleCOSError(out.err))
                 ELSE Finish(read, <<Call("Get", BackendKey(in), opt)>>,
                             Answer(out.status, "passthrough",
                                    [ETag |-> out.etag]))

\* lines 174-192
DeleteObject ==
    /\ rpc = "DeleteObject"
    /\ \E a \in CtrlAddresses, out \in Outcomes(204, {<<>>}) :
         LET in == Resolved(a.host, a.path, a.baseDomain) IN
         IF in.key = <<>>
         THEN Finish(in, <<>>, XMLError(400, "Invalid key"))
         ELSE LET read == in @@ [out |-> out]
              IN IF out.err # S3Nil
                 THEN Finish(read, <<Call("Delete", BackendKey(in), <<>>)>>,
                             CtrlHandleCOSError(out.err))
                 ELSE Finish(read, <<Call("Delete", BackendKey(in), <<>>)>>,
                             Answer(204, "status", <<>>))

\* ------------------------------------------------------------- PostObject
\* The placeholder of a key template, one element of the key's sequence.
FilenamePlaceholder == "${filename}"

ReplaceAll_Mut(s, old, new) ==
    IF \E i \in 1..Len(s) : s[i] = old
    THEN LET i == CHOOSE j \in 1..Len(s) :
                      s[j] = old /\ \A k \in 1..(j - 1) : s[k] # old
         IN SubSeq(s, 1, i - 1) \o new \o SubSeq(s, i + 1, Len(s))
    ELSE s

RECURSIVE ReplaceAll(_, _, _)
\* strings.Replace(s, old, new, -1) for a one-element old
ReplaceAll(s, old, new) ==
    IF s = <<>> THEN <<>>
    ELSE IF Head(s) = old THEN new \o ReplaceAll(Tail(s), old, new)
    ELSE <<Head(s)>> \o ReplaceAll(Tail(s), old, new)

\* Content-Type values of a POST, as a media type followed by parameters.
PostContentTypes ==
    {<<"multipart/form-data">>,
     <<"multipart/form-data", "; boundary=x">>,
     <<"application/json">>,
     <<>>}

\* form.Value["key"] entries
FormKeys ==
    {<<>>,
     <<"k">>,
     <<"u", "/", FilenamePlaceholder>>,
     <<FilenamePlaceholder, "-", FilenamePlaceholder>>}

\* form.File["file"] entries: the file's name and whether Open() fails
FormFiles == [Filename : {<<>>, <<"n">>}, openErr : BOOLEAN]

\* What c.MultipartForm() returns: an error, or the form's key values and
\* files (an absent field is the empty list).
Forms ==
    {[err |-> TRUE, keyValues |-> <<>>, files |-> <<>>]}
    \cup {[err |-> FALSE, keyValues |-> <<>>, files |-> <<f>>] :
             f \in FormFiles}
    \cup {[err |-> FALSE, keyValues |-> <<k>>, files |-> <<>>] :
             k \in FormKeys}
    \cup {[err |-> FALSE, keyValues |-> <<k>>, files |-> <<f>>] :
             k \in FormKeys, f \in FormFiles}
    \cup {[err |-> FALSE, keyValues |-> <<k, <<"k">>>>, files |-> <<f, f>>] :
             k \in FormKeys, f \in {[Filename |-> <<"n">>, openErr |-> FALSE]}}

\* lines 196-254
PostObject ==
    /\ rpc = "PostObject"
    /\ \E ct \in PostContentTypes, form \in Forms,
          out \in Outcomes(200, BackendETags) :
         LET none == NoInput @@ [contentType |-> ct] IN
         IF ~HasPrefix(ct, <<"multipart/form-data">>)
         THEN Finish(none, <<>>,
                     XMLError(400, "Invalid Content-Type for POST upload"))
         ELSE IF form.err
         THEN Finish(none, <<>>,
                     XMLError(400, "Failed to parse multipart form"))
         ELSE IF Len(form.keyValues) = 0 \/ Len(form.files) = 0
         THEN Finish(none @@ [form |-> form], <<>>,
                     XMLError(400, "'key' and 'file' fields are required"))
         ELSE LET fileName == form.files[1].Filename
                  key == ReplaceAll(form.keyValues[1], FilenamePlaceholder,
                                    fileName)
                  in == [NoInput EXCEPT !.key = key]
                           @@ [contentType |-> ct, form |-> form]
              IN IF form.files[1].openErr
                 THEN Finish(in, <<>>,
                             XMLError(500, "Failed to open uploaded file"))
                 ELSE IF out.err # S3Nil
                 THEN Finish(in @@ [out |-> out],
                             <<Call("Put", key, <<>>)>>,
                             CtrlHandleCOSError(out.err))
                 ELSE Finish(in @@ [out |-> out],
                             <<Call("Put", key, <<>>)>>,
                             Answer(out.status, "passthrough",
                                    [ETag |-> out.etag]))

\* -------------------------------------------------------- multipart upload
\* c.Query("uploadId")
QueryUploadID(r) == IF r.hasUploadId THEN r.uploadId ELSE ""

\* lines 262-320
CreateMultipartUpload ==
    /\ rpc = "CreateMultipartUpload"
    /\ \E a \in CtrlAddresses, h \in RequestHeaders,
          out \in Outcomes(200, {<<>>}) :
         LET in == Resolved(a.host, a.path, a.baseDomain) IN
         IF in.key = <<>>
         THEN Finish(in, <<>>, XMLError(400, "Invalid key"))
         ELSE LET opt == [ContentType |-> h.contentType,
                          XCosMetaXXX |-> XCosMetaXXX(h.other)]
                  read == in @@ [headers |-> h, out |-> out]
                  call == Call("InitiateMultipartUpload", BackendKey(in), opt)
              IN IF out.err # S3Nil
                 THEN Finish(read, <<call>>, CtrlHandleCOSError(out.err))
                 ELSE Finish(read, <<call>>,
                             Answer(200, "InitiateMultipartUploadResult",
                                    [Bucket |-> in.bucket, Key |-> in.key,
                                     UploadId |-> "upload-9"]))

Digits == <<"0", "1", "2">>

\* the value of a decimal digit, -1 for any other character
DigitValue(c) ==
    IF \E i \in 1..Len(Digits) : Digits[i] = c
    THEN (CHOOSE i \in 1..Len(Digits) : Digits[i] = c) - 1
    ELSE -1

RECURSIVE DecimalValue(_)
DecimalValue(s) ==
    IF s = <<>> THEN 0
    ELSE DecimalValue(SubSeq(s, 1, Len(s) - 1)) * 10
            + DigitValue(s[Len(s)])

\* strconv.Atoi: an optional sign followed by at least one decimal digit
Atoi(s) ==
    LET signed == s # <<>> /\ (Head(s) = "-" \/ Head(s) = "+")
        digits == IF signed THEN Tail(s) ELSE s
    IN IF digits = <<>> \/ \E i \in 1..Len(digits) : DigitValue(digits[i]) < 0
       THEN [err |-> TRUE, n |-> 0]
       ELSE [err |-> FALSE,
             n |-> IF signed /\ Head(s) = "-" THEN 0 - DecimalValue(digits)
                   ELSE DecimalValue(digits)]

\* c.Query("partNumber")
PartNumberTexts ==
    {<<>>, <<"1">>, <<"0">>, <<"-", "1">>, <<"x">>, <<"1", "2">>}

\* lines 324-391
UploadPart ==
    /\ rpc = "UploadPart"
    /\ \E a \in CtrlAddresses, partNumber \in PartNumberTexts,
          h \in RequestHeaders, out \in Outcomes(200, BackendETags) :
         LET in == Resolved(a.host, a.path, a.baseDomain)
                      @@ [partNumber |-> partNumber]
             uploadId == QueryUploadID(rq)
             partNum == Atoi(partNumber)
         IN
         IF in.key = <<>> \/ partNumber = <<>> \/ uploadId = ""
         THEN Finish(in, <<>>,
                XMLError(400, "Missing required parameters for UploadPart"))
         ELSE IF partNum.err
         THEN Finish(in, <<>>, XMLError(400, "Invalid partNumber"))
         ELSE IF h.contentLength < 0
         THEN Finish(in @@ [headers |-> h], <<>>,
                XMLError(411,
                   "Content-Length header is required for UploadPart"))
         ELSE LET opt == [ContentLength |-> h.contentLength,
                          ContentMD5 |-> h.contentMD5]
                  read == in @@ [headers |-> h, out |-> out]
                  call == Call("UploadPart", BackendKey(in),
                               [uploadID |-> uploadId, partNum |-> partNum.n,
                                opt |-> opt])
              IN IF out.err # S3Nil
                 THEN Finish(read, <<call>>, CtrlHandleCOSError(out.err))
                 ELSE Finish(read, <<call>>,
                             Answer(200, "UploadPart",
                                    [ETag |-> out.etag]))

\* Most Part elements in a completion body.
MaxBodyParts == 2

Quote == "\""

\* ETag elements of a completion body: quoted, unquoted, doubly quoted,
\* empty.
ClientETags ==
    {<<Quote, "a", "1", Quote>>,
     <<"a", "1">>,
     <<Quote, Quote, "a", "1", Quote, Quote>>,
     <<>>}

BodyParts == [PartNumber : {1, 2}, ETag : ClientETags]

\* What c.ShouldBindXML makes of the body: an error, or the Part elements
\* in the order of the document.
CompleteBodies ==
    {[err |-> TRUE, Parts |-> <<>>]}
    \cup {[err |-> FALSE, Parts |-> ps] :
             ps \in UNION {[1..n -> BodyParts] : n \in 0..MaxBodyParts}}

\* Mutant of BindFailed: the error of ShouldBindXML is ignored.
BindFailed_Mut(body) == FALSE

\* err := c.ShouldBindXML(&completeUploadData); err != nil
BindFailed(body) == body.err

\* Mutant of CosPart: the ETag is forwarded as the client sent it.
CosPart_Mut(p) == [PartNumber |-> p.PartNumber, ETag |-> p.ETag]

\* lines 419-423: one entry of cosParts
CosPart(p) == [PartNumber |-> p.PartNumber, ETag |-> Trim(p.ETag, Quote)]

\* Mutant of CosParts: the list is put in part number order before it is
\* forwarded.
CosParts_Mut(parts) ==
    LET sorted == SortParts(parts)
    IN [i \in 1..Len(sorted) |-> CosPart(sorted[i])]

\* lines 417-424: cosParts has an entry for each element of
\* completeUploadData.Parts, at the same index
CosParts(parts) == [i \in 1..Len(parts) |-> CosPart(parts[i])]

\* lines 395-463
CompleteMultipartUpload ==
    /\ rpc = "CompleteMultipartUpload"
    /\ \E a \in CtrlAddresses, body \in CompleteBodies,
          out \in Outcomes(200, BackendETags) :
         LET in == Resolved(a.host, a.path, a.baseDomain)
             uploadId == QueryUploadID(rq)
         IN
         IF in.key = <<>> \/ uploadId = ""
         THEN Finish(in, <<>>,
                XMLError(400,
                   "Missing required parameters for CompleteMultipartUpload"))
         ELSE IF BindFailed(body)
         THEN Finish(in @@ [body |-> body], <<>>,
                     XMLError(400, "Invalid XML body"))
         ELSE LET cosParts == CosParts(body.Parts)
                  read == in @@ [body |-> body, out |-> out]
                  call == Call("CompleteMultipartUpload", BackendKey(in),
                               [uploadID |-> uploadId, Parts |-> cosParts])
              IN IF out.err # S3Nil
                 THEN Finish(read, <<call>>, CtrlHandleCOSError(out.err))
                 ELSE Finish(read, <<call>>,
                             Answer(200, "CompleteMultipartUploadResult",
                                    [Location |-> "location",
                                     Bucket |-> in.bucket, Key |-> in.key,
                                     ETag |-> out.etag]))

\* lines 467-491
AbortMultipartUpload ==
    /\ rpc = "AbortMultipartUpload"
    /\ \E a \in CtrlAddresses, out \in Outcomes(204, {<<>>}) :
         LET in == Resolved(a.host, a.path, a.baseDomain)
             uploadId == QueryUploadID(rq)
         IN
         IF in.key = <<>> \/ uploadId = ""
         THEN Finish(in, <<>>,
                XMLError(400,
                   "Missing required parameters for AbortMultipartUpload"))
         ELSE LET read == in @@ [out |-> out]
                  call == Call("AbortMultipartUpload", BackendKey(in),
                               [uploadID |-> uploadId])
              IN IF out.err # S3Nil
                 THEN Finish(read, <<call>>, CtrlHandleCOSError(out.err))
                 ELSE Finish(read, <<call>>, Answer(204, "status", <<>>))

\* ------------------------------------------------------------- CtrlSpec
\* A request arrives at the middleware of its server.
\* ===================================================================
\* COSProxyHandler (part_000): the handlers behind ServeHTTP
\* ===================================================================

\* r.URL.Path of the requests
HTTPPaths == {<<"/">>, <<"/", "a">>}

\* The partNumber parameter of the query (empty when absent).
HTTPPartNumbers == {<<>>, <<"1">>}

\* http.Error(w, message, status)
HTTPError(status, message) == Answer(status, "text", <<message>>)

\* What a handler writes for a response of handleCOSError or of the backend.
Written(r) == Answer(r.status, "passthrough", r.body)

\* A handler returned.
HTTPFinish(in, newCalls, answer) ==
    /\ inp' = in
    /\ calls' = calls \o newCalls
    /\ rsp' = answer
    /\ rpc' = "done"
    /\ UNCHANGED <<rq, op>>
    /\ UNCHANGED <<mpVars, sibling, reqCtx>>

\* lines 136-155: the handler ServeHTTP calls for a request, or the status
\* it answers itself
HTTPDispatch(method, uploads, hasUploadId) ==
    CASE method = "GET" -> "handleGetObject"
      [] method = "PUT" -> "handlePutObject"
      [] method = "DELETE" -> "handleDeleteObject"
      [] method = "POST" -> IF uploads \/ hasUploadId
                            THEN "handlePutObject"
                            ELSE "handlePostObject"
      [] OTHER -> "405"

\* lines 116-156
ServeHTTP ==
    /\ rpc = "servehttp"
    /\ \E path \in HTTPPaths, pn \in HTTPPartNumbers :
         LET objectKey == TrimPrefix(path, <<"/">>)
             d == HTTPDispatch(rq.method, rq.uploads, rq.hasUploadId)
         IN /\ inp' = [NoInput EXCEPT !.path = path, !.key = objectKey]
                          @@ [partNumber |-> pn]
            /\ IF objectKey = <<>> /\ rq.method # "POST"
               THEN /\ op' = "ServeHTTP"
                    /\ rpc' = "done"
                    /\ rsp' = HTTPError(400,
                           "Object key is missing in the URL path.")
               ELSE IF d = "405"
               THEN /\ op' = "ServeHTTP"
                    /\ rpc' = "done"
                    /\ rsp' = HTTPError(405, "Method not allowed")
               ELSE /\ op' = d
                    /\ rpc' = d
                    /\ UNCHANGED rsp
    /\ UNCHANGED <<rq, calls>>
    /\ UNCHANGED <<mpVars, sibling, reqCtx>>

\* A backend response that is not an error value of the SDK.
HTTPResponses(status) == {[status |-> status, body |-> <<"cos body">>]}

\* lines 159-172
handleGetObject ==
    /\ rpc = "handleGetObject"
    /\ \E err \in BackendOutcomes, r \in HTTPResponses(200) :
         LET call == Call("Get", inp.key, <<>>) IN
         IF err # NoErr
         THEN HTTPFinish(inp @@ [err |-> err], <<call>>,
                         Written(handleCOSError(err)))
         ELSE HTTPFinish(inp @@ [err |-> err], <<call>>, Written(r))

\* line 188: const simpleUploadThreshold int64 = 5 * 1024 * 1024
SimpleUploadThreshold == 5 * 1024 * 1024

\* r.ContentLength of the requests (-1 when unknown)
HTTPContentLengths ==
    {-1, 0, SimpleUploadThreshold - 1, SimpleUploadThreshold}

\* lines 179-180: the request manages a multipart upload and is forwarded
\* as it is
IsMultipartManagement(method, uploads, hasUploadId) ==
    \/ method = "POST" /\ (uploads \/ hasUploadId)
    \/ method = "DELETE" /\ hasUploadId

\* Mutant of UploadStrategy: an unknown length counts as a small one.
UploadStrategy_Mut(contentLength) ==
    IF contentLength < SimpleUploadThreshold
    THEN "executeSimplePut"
    ELSE "executeMultipartPut"

\* lines 190-196
UploadStrategy(contentLength) ==
    IF contentLength # -1 /\ contentLength < SimpleUploadThreshold
    THEN "executeSimplePut"
    ELSE "executeMultipartPut"

\* lines 175-197; h.executeMultipartPut starts at its first statement
handlePutObject ==
    /\ rpc = "handlePutObject"
    /\ \E contentLength \in HTTPContentLengths :
         LET next == IF IsMultipartManagement(rq.method, rq.uploads,
                                              rq.hasUploadId)
                     THEN "proxyMultipartRequest"
                     ELSE UploadStrategy(contentLength)
         IN /\ inp' = inp @@ [contentLength |-> contentLength]
            /\ rpc' = next
            /\ pc' = IF next = "executeMultipartPut" THEN "initiate" ELSE pc
    /\ UNCHANGED <<rq, op, calls, rsp>>
    /\ UNCHANGED <<mpData, sibling, reqCtx>>

\* Header names as net/http canonicalises them.
HdrCosMetaK == <<"X", "-", "C", "o", "s", "-", "M", "e", "t", "a", "-", "K">>

\* The headers of a request to COSProxyHandler: Content-Type and the
\* remaining headers as a map from name to the list of its values.
HTTPRequestHeaders ==
    {[contentType |-> "", other |-> <<>>],
     [contentType |-> "text/plain",
      other |-> (HdrCosMetaK :> <<"v1", "v2">> @@ HdrOtherK :> <<"v3">>)]}

\* lines 214-224 and 489-498: the x-cos-meta-* headers with all their values
PassedCosMeta(other) ==
    LET metas == {h \in DOMAIN other : HasPrefix(ToLower(h), CosMetaPrefix)}
    IN [n \in {CanonicalMIMEHeaderKey(h) : h \in metas} |->
           LET h == CHOOSE g \in metas : CanonicalMIMEHeaderKey(g) = n
           IN other[h]]

\* lines 249-252: the options of InitiateMultipartUpload are the content
\* type, when the request has one, and nothing else
InitiateOptions(h) ==
    IF h.contentType # ""
    THEN [ContentType |-> h.contentType]
    ELSE <<>>

\* lines 245-259: executeMultipartPut from its first statement to the
\* return of InitiateMultipartUpload, with the headers it reads and the
\* call it makes
executeMultipartPut ==
    /\ rpc = "executeMultipartPut"
    /\ InitiateStep
    /\ \E h \in HTTPRequestHeaders :
         /\ inp' = inp @@ [headers |-> h]
         /\ calls' = calls \o <<Call("InitiateMultipartUpload", inp.key,
                                     InitiateOptions(h))>>
    /\ UNCHANGED <<rpc, rq, op, rsp, sibling, reqCtx>>

\* lines 200-242
executeSimplePut ==
    /\ rpc = "executeSimplePut"
    /\ \E h \in HTTPRequestHeaders, err \in BackendOutcomes,
          r \in HTTPResponses(200) :
         LET contentType == IF h.contentType = ""
                            THEN "application/octet-stream"
                            ELSE h.contentType
             opt == [ContentType |-> contentType,
                     ContentLength |-> inp.contentLength,
                     XCosMetaXXX |-> PassedCosMeta(h.other)]
             call == Call("Put", inp.key, opt)
             read == inp @@ [headers |-> h, err |-> err]
         IN IF err # NoErr
            THEN HTTPFinish(read, <<call>>, Written(handleCOSError(err)))
            ELSE HTTPFinish(read, <<call>>, Written(r))

\* What authClient.Do returns: an error, or the backend's response whatever
\* its status.
ForwardOutcomes ==
    {[err |-> TransportErr, status |-> 0, body |-> <<>>]}
    \cup {[err |-> NoErr, status |-> st, body |-> <<"cos body">>] :
             st \in {200, 204, 404}}

\* lines 369-404: the request is sent to the bucket URL with its method,
\* path and query
proxyMultipartRequest ==
    /\ rpc = "proxyMultipartRequest"
    /\ \E out \in ForwardOutcomes :
         LET call == Call("Forward", inp.key,
                          [method |-> rq.method, uploads |-> rq.uploads,
                           hasUploadId |-> rq.hasUploadId,
                           uploadId |-> rq.uploadId,
                           partNumber |-> inp.partNumber])
         IN IF out.err # NoErr
            THEN HTTPFinish(inp @@ [err |-> out.err], <<call>>,
                            HTTPError(500, "transport error"))
            ELSE HTTPFinish(inp @@ [err |-> out.err], <<call>>,
                            Written([status |-> out.status,
                                     body |-> out.body]))

\* lines 407-422
handleDeleteObject ==
    /\ rpc = "handleDeleteObject"
    /\ \E err \in BackendOutcomes, r \in HTTPResponses(204) :
         LET call == Call("Delete", inp.key, <<>>) IN
         IF err # NoErr
         THEN HTTPFinish(inp @@ [err |-> err], <<call>>,
                         Written(handleCOSError(err)))
         ELSE HTTPFinish(inp @@ [err |-> err], <<call>>, Written(r))

\* lines 448-462: the content type of the file's part, else one inferred
\* from the file name's extension
FileContentType(partType, fileName) ==
    LET lower == ToLower(fileName) IN
    IF partType # "" THEN partType
    ELSE IF HasSuffix(lower, <<".", "w", "e", "b", "m">>) THEN "audio/webm"
    ELSE IF HasSuffix(lower, <<".", "m", "p", "3">>) THEN "audio/mpeg"
    ELSE IF HasSuffix(lower, <<".", "w", "a", "v">>) THEN "audio/wav"
    ELSE IF HasSuffix(lower, <<".", "m", "p", "4">>) THEN "video/mp4"
    ELSE "application/octet-stream"

\* lines 425-513; r.ParseMultipartForm fails for a content type that is not
\* multipart/form-data, r.FormFile fails when the file is missing or cannot
\* be opened
handlePostObject ==
    /\ rpc = "handlePostObject"
    /\ \E ct \in PostContentTypes, form \in Forms,
          partType \in {"", "text/plain"}, h \in HTTPRequestHeaders,
          err \in BackendOutcomes, r \in HTTPResponses(200) :
         LET none == inp @@ [contentType |-> ct] IN
         IF ~HasPrefix(ct, <<"multipart/form-data">>) \/ form.err
         THEN HTTPFinish(none, <<>>,
                         HTTPError(400, "Failed to parse multipart form: "))
         ELSE IF Len(form.keyValues) = 0 \/ form.keyValues[1] = <<>>
         THEN HTTPFinish(none @@ [form |-> form], <<>>,
                         HTTPError(400, "Form field 'key' is required."))
         ELSE IF Len(form.files) = 0 \/ form.files[1].openErr
         THEN HTTPFinish(none @@ [form |-> form], <<>>,
                         HTTPError(400, "Failed to get file from form: "))
         ELSE LET fileName == form.files[1].Filename
                  finalObjectKey ==
                      ReplaceAll(form.keyValues[1], FilenamePlaceholder,
                                 fileName)
                  opt == [ContentType |-> FileContentType(partType, fileName),
                          XCosMetaXXX |-> PassedCosMeta(h.other)]
                  call == Call("Put", finalObjectKey, opt)
                  read == none @@ [form |-> form, headers |-> h,
                                   err |-> err]
              IN IF err # NoErr
                 THEN HTTPFinish(read, <<call>>,
                                 Written(handleCOSError(err)))
                 ELSE HTTPFinish(read, <<call>>, Written(r))

CtrlInit ==
    /\ MpIdle
    /\ rpc = "middleware"
    /\ rq \in {r \in Requests : ~r.hasUploadId => r.uploadId = ""}
    /\ inp = NoInput
    /\ op = ""
    /\ calls = <<>>
    /\ rsp = NoAnswer

CtrlNext ==
    \/ WhitelistGin
    \/ WhitelistHTTP
    \/ DispatchRequest
    \/ GetObject
    \/ PutObject
    \/ DeleteObject
    \/ PostObject
    \/ CreateMultipartUpload
    \/ UploadPart
    \/ CompleteMultipartUpload
    \/ AbortMultipartUpload
    \/ ServeHTTP
    \/ handleGetObject
    \/ handlePutObject
    \/ executeSimplePut
    \/ proxyMultipartRequest
    \/ handleDeleteObject
    \/ handlePostObject
    \/ executeMultipartPut

CtrlSpec == CtrlInit /\ [][CtrlNext]_vars

\* ===================================================================
\* Properties
\* ===================================================================

\* No step of the program is possible any more.
Quiescent == ~ENABLED Next

\* Every backend call made so far succeeded and the body met no error.
AllSucceeded ==
    /\ uploadID # ""
    /\ initErr = NoErr
    /\ failedParts = {}
    /\ completeErr = NoErr
    /\ abortCalls = 0
    /\ bodyEnd \in {"open", "EOF"}

\* A worker holds a result it cannot send: uploadedCh is full and is drained
\* only after g.Wait returned.
WorkerBlockedOnSend ==
    /\ pc = "wait"
    /\ Len(uploadedCh) = Concurrency
    /\ \E w \in BagToSet(workers) : w.pc = "send"

\* C1: when Initiate, every UploadPart and Complete succeed and the body ends
\* cleanly, the handler issues CompleteMultipartUpload and answers 200: it
\* never comes to rest in another state, and no worker is left blocked on
\* its send to uploadedCh while the handler waits in g.Wait.
C1_SuccessfulUploadCompletes ==
    /\ (AllSucceeded /\ Quiescent) =>
           (completeCalls = 1 /\ response = CompleteResponse)
    /\ AllSucceeded => ~(WorkerBlockedOnSend /\ Quiescent)

\* C2: when an UploadPart call or a read of the body failed in a session
\* whose Initiate succeeded, the handler does not come to rest before
\* AbortMultipartUpload was issued.
C2_FailureIsAborted ==
    (uploadID # "" /\ (failedParts # {} \/ readErr = BodyReadErr)
        /\ Quiescent) => abortCalls >= 1

\* C3: once an UploadPart call of the session returned an error,
\* CompleteMultipartUpload is never called.
C3_NoCompleteAfterPartFailure == failedParts # {} => completeCalls = 0

\* Scenario B: part 1 succeeded, part 2 failed, the session was aborted.
C3_Witness ==
    /\ pc = "done"
    /\ 2 \in failedParts
    /\ etagRet[1] # NoETag
    /\ abortCalls = 1

\* C4: the manifest of a Complete call has the part numbers 1..N in this
\* order, N being the number of parts the producer emitted, and each entry
\* carries the ETag that UploadPart returned for that part.
C4_ManifestSortedComplete ==
    completeCalls = 1 =>
        /\ Len(manifest) = Len(emitted)
        /\ \A i \in 1..Len(manifest) :
              /\ manifest[i].PartNumber = i
              /\ manifest[i].ETag # NoETag
              /\ manifest[i].ETag = etagRet[i]
        /\ \A i \in 1..(Len(manifest) - 1) :
              manifest[i].PartNumber < manifest[i + 1].PartNumber

\* A Complete call of three or more parts whose results arrived out of order.
C4_Witness ==
    /\ completeCalls = 1
    /\ Len(manifest) >= 3
    /\ uploadedParts # manifest

\* C5: a session issues at most one AbortMultipartUpload, at most one
\* CompleteMultipartUpload, and never both.
C5_AtMostOneAbortOrComplete == abortCalls + completeCalls <= 1

\* Two workers failed in the same session, which was aborted once.
C5_Witness ==
    /\ pc = "done"
    /\ Cardinality(failedParts) >= 2
    /\ abortCalls = 1

\* C6: when a read of the body returned an error other than a clean end of
\* stream (a truncated body included), CompleteMultipartUpload is never
\* called and the session ends with an abort.
C6_ReadErrorNeverCompletes ==
    bodyEnd \in {"Truncated", "Error"} =>
        /\ completeCalls = 0
        /\ pc = "done" => abortCalls = 1

\* ceil(len / PartSize)
CeilParts(len) == (len + PartSize - 1) \div PartSize

\* Length of the last part of a stream of len bytes
LastPartLen(len) == IF len % PartSize = 0 THEN PartSize ELSE len % PartSize

\* C7: no zero-length part is emitted; and when the producer returned nil
\* after a clean end of a body of bodyPos bytes, it emitted
\* ceil(bodyPos / PartSize) parts, all of PartSize bytes but the last, which
\* has bodyPos mod PartSize bytes (PartSize when that is 0).
C7_PartCountAndSizes ==
    /\ \A i \in 1..Len(emitted) : emitted[i].Len > 0
    /\ (producer.pc = "done" /\ producer.err = NoErr /\ bodyEnd = "EOF") =>
          /\ Len(emitted) = CeilParts(bodyPos)
          /\ \A i \in 1..Len(emitted) :
                emitted[i].Len = IF i < Len(emitted) THEN PartSize
                                 ELSE LastPartLen(bodyPos)

\* A body of three or more parts with a short last part, read to its end.
C7_Witness ==
    /\ producer.pc = "done"
    /\ producer.err = NoErr
    /\ bodyEnd = "EOF"
    /\ bodyPos % PartSize # 0
    /\ Len(emitted) >= 3

\* C8: the k-th part placed on partsCh has part number k and holds the k-th
\* chunk of the body; partNumber is one more than the number of parts the
\* queue accepted.
C8_PartNumbersInReadOrder ==
    /\ \A i \in 1..Len(emitted) :
          /\ emitted[i].PartNumber = i
          /\ emitted[i].Off = (i - 1) * PartSize
    /\ \A i, j \in 1..Len(emitted) :
          emitted[i].PartNumber = emitted[j].PartNumber => i = j
    /\ producer.pc # "unstarted" => producer.partNumber = Len(emitted) + 1
    /\ producer.pc = "send" => producer.chunk.PartNumber = Len(emitted) + 1

\* The producer holds its fourth chunk while the queue has accepted three.
C8_Witness ==
    /\ producer.pc = "send"
    /\ Len(emitted) = 3
    /\ producer.chunk.Off = 3 * PartSize

\* The answer of a failed session: status 500 with the error of g.Wait.
FailureResponse(err) ==
    [status |-> 500, body |-> <<"Multipart upload failed: ", err>>]

\* C9: whatever AbortMultipartUpload returned, the response of a failed
\* session is the error response built from the error of g.Wait.
C9_AbortErrorNotSurfaced ==
    abortCalls > 0 => response = FailureResponse(gErr)

\* A failed session whose abort call failed too.
C9_Witness ==
    /\ pc = "done"
    /\ abortCalls = 1
    /\ abortErr # NoErr

\* C10: when InitiateMultipartUpload failed the handler has answered with
\* handleCOSError and returned: nothing was read, no goroutine was started
\* and no other backend call was issued.
C10_InitiateFailureStopsEverything ==
    initErr # NoErr =>
        /\ pc = "done"
        /\ response = handleCOSError(initErr)
        /\ uploadID = ""
        /\ bodyPos = 0
        /\ bodyEnd = "open"
        /\ workers = EmptyBag
        /\ producer = ProducerIdle
        /\ partsCh = <<>> /\ uploadedCh = <<>>
        /\ \A p \in PartNumbers : uploadCalls[p] = 0
        /\ abortCalls = 0
        /\ completeCalls = 0

\* InitiateMultipartUpload failed with a backend error.
C10_Witness ==
    /\ initErr = CosErr(403, 0)
    /\ pc = "done"
    /\ response.status = 403

\* ===================================================================
\* Properties of the request pipeline
\* ===================================================================

\* The specified path-style rule as a relation: p is the path without its
\* leading slash; it is cut at its first slash, the key is empty without one.
PathStyleRule(p, bucket, key) ==
    IF \E i \in 1..Len(p) : p[i] = "/"
    THEN /\ bucket \o <<"/">> \o key = p
         /\ \A i \in 1..Len(bucket) : bucket[i] # "/"
    ELSE /\ bucket = p
         /\ key = <<>>

\* path without its leading slash
WithoutLeadingSlash(path) ==
    IF path # <<>> /\ Head(path) = "/" THEN Tail(path) ELSE path

\* The specified rule, with the virtual-hosted case taken when `virtual`.
AddressRule(virtual, in) ==
    IF virtual
    THEN /\ in.bucket \o <<".">> \o in.baseDomain = in.host
         /\ in.key = WithoutLeadingSlash(in.path)
    ELSE PathStyleRule(WithoutLeadingSlash(in.path), in.bucket, in.key)

\* host ends with "." + baseDomain
EndsWithDotBase(in) ==
    /\ Len(in.host) >= Len(in.baseDomain) + 1
    /\ \A i \in 1..Len(in.baseDomain) :
          in.host[Len(in.host) - Len(in.baseDomain) + i] = in.baseDomain[i]
    /\ in.host[Len(in.host) - Len(in.baseDomain)] = "."

\* C15 (as amended): for every host, path and baseDomain,
\* extractBucketAndKey returns: if baseDomain is non-empty and host ends
\* with "."+baseDomain and something precedes that suffix, the bucket is
\* host without the suffix and the key is path without its leading slash;
\* otherwise path without its leading slash is split on its first slash
\* into bucket and key (key empty when there is no slash).
C15_AddressRule ==
    (rpc = "done" /\ inp.resolved) =>
        AddressRule(/\ inp.baseDomain # <<>>
                    /\ EndsWithDotBase(inp)
                    /\ Len(inp.host) > Len(inp.baseDomain) + 1,
                    inp)

\* C15 witness: the two addresses of the claim's example, host b.e.c with
\* path /a/b and path-style /b/a/b, have been resolved to bucket b, key a/b
\* (one state per address; this is the virtual-hosted one).
C15_Witness ==
    /\ rpc = "done"
    /\ inp.resolved
    /\ inp.baseDomain = <<"e", ".", "c">>
    /\ inp.host = <<"b", ".", "e", ".", "c">>
    /\ inp.path = <<"/", "a", "/", "b">>
    /\ inp.bucket = <<"b">>
    /\ inp.key = <<"a", "/", "b">>

\* C15 as stated: the virtual-hosted case is taken whenever baseDomain is
\* non-empty and host ends with "."+baseDomain.  Violated by host ".e.c":
\* the code resolves it path-style.
C15_AddressRuleAsStated ==
    (rpc = "done" /\ inp.resolved) =>
        AddressRule(inp.baseDomain # <<>> /\ EndsWithDotBase(inp), inp)

\* The operations of the history.
CallOps == {calls[i].op : i \in 1..Len(calls)}

\* The request went through the S3Controller's dispatcher.
Dispatched == rq.stack = "gin" /\ op # ""

\* C11: a PUT whose query carries uploadId and no uploads marker is always
\* handled by UploadPart and never by PutObject: the dispatcher invokes
\* UploadPart, and no backend Put is issued for the request.
C11_PutWithUploadIdIsUploadPart ==
    (Dispatched /\ rq.method = "PUT" /\ rq.hasUploadId /\ ~rq.uploads) =>
        /\ op = "UploadPart"
        /\ CallOps \subseteq {"UploadPart"}

\* C11 witness: such a PUT has been handled, with one backend UploadPart.
C11_Witness ==
    /\ Dispatched
    /\ rq.method = "PUT"
    /\ rq.hasUploadId
    /\ ~rq.uploads
    /\ rpc = "done"
    /\ Len(calls) = 1
    /\ calls[1].op = "UploadPart"

\* The backend operation an operation of the controller may call.
BackendCallOf(name) ==
    CASE name = "GetObject" -> {"Get"}
      [] name = "PutObject" -> {"Put"}
      [] name = "PostObject" -> {"Put"}
      [] name = "DeleteObject" -> {"Delete"}
      [] name = "CreateMultipartUpload" -> {"InitiateMultipartUpload"}
      [] name = "UploadPart" -> {"UploadPart"}
      [] name = "CompleteMultipartUpload" -> {"CompleteMultipartUpload"}
      [] name = "AbortMultipartUpload" -> {"AbortMultipartUpload"}
      [] OTHER -> {}

\* The outcome the dispatch table prescribes for the request.
TableOutcome(o) ==
    /\ rq.uploads => o = "CreateMultipartUpload"
    /\ (~rq.uploads /\ rq.hasUploadId) =>
          /\ rq.method = "PUT" => o = "UploadPart"
          /\ rq.method = "POST" => o = "CompleteMultipartUpload"
          /\ rq.method = "DELETE" => o = "AbortMultipartUpload"
          /\ rq.method \notin {"PUT", "POST", "DELETE"} => o = "400"
    /\ (~rq.uploads /\ ~rq.hasUploadId) =>
          /\ rq.method = "GET" => o = "GetObject"
          /\ rq.method = "PUT" => o = "PutObject"
          /\ rq.method = "POST" => o = "PostObject"
          /\ rq.method = "DELETE" => o = "DeleteObject"
          /\ rq.method \notin {"GET", "PUT", "POST", "DELETE"} => o = "405"

\* C12: the dispatcher maps every request to exactly one outcome, given by
\* (uploads present, uploadId present, method): uploads => Initiate for any
\* method; else uploadId => PUT UploadPart, POST Complete, DELETE Abort, any
\* other method a 400; else GET, PUT, POST, DELETE to the object operations
\* and any other method a 405.  The request meets no other operation: the
\* only backend call is that of the chosen operation, and a 400 or 405 of
\* the dispatcher comes with no backend call.
C12_DispatchTable ==
    Dispatched =>
        /\ TableOutcome(op)
        /\ rpc \in {op, "done"}
        /\ CallOps \subseteq BackendCallOf(op)
        /\ Len(calls) <= 1
        /\ op = "400" => (rpc = "done" /\ rsp.status = 400)
        /\ op = "405" => (rpc = "done" /\ rsp.status = 405)

\* C12 witness: a request with uploadId and a method other than PUT, POST,
\* DELETE has been answered 400 by the dispatcher.
C12_Witness ==
    /\ Dispatched
    /\ rq.method = "PATCH"
    /\ rq.hasUploadId
    /\ ~rq.uploads
    /\ op = "400"
    /\ rsp.status = 400

\* Backend calls that change the state of the bucket.
StateChangingOps ==
    {"Put", "Delete", "InitiateMultipartUpload", "UploadPart",
     "CompleteMultipartUpload", "AbortMultipartUpload"}

\* No address the request carries is whitelisted: not X-Real-IP, not
\* X-Forwarded-For, not the remote address.
NotWhitelisted(r) ==
    /\ r.xRealIP \notin AllowedIPs
    /\ r.xff \notin AllowedIPs
    /\ r.remote \notin AllowedIPs

\* C13: behind the whitelist middleware, a request whose client IP is not
\* whitelisted never causes a state-changing backend call, for every method
\* and every combination of query markers.
C13_NonWhitelistedNeverWrites ==
    (rq.stack = "gin" /\ NotWhitelisted(rq)) =>
        CallOps \cap StateChangingOps = {}

\* The client IP as specified: X-Real-IP when non-empty, else the ip of the
\* remote address ("" when it cannot be parsed).
SpecifiedClientIP(r) ==
    IF r.xRealIP # "" THEN r.xRealIP
    ELSE IF r.remote = BadRemoteAddr THEN ""
    ELSE r.remote

\* The requests the middleware is specified to pass.
SpecifiedToPass(r) ==
    IsReadMethod(r.method) \/ SpecifiedClientIP(r) \in AllowedIPs

\* The middleware answered the request itself.
Blocked == rpc = "done" /\ op = "" /\ rsp.status # 0

\* The middleware called the next handler.
Passed == rpc \in {"dispatch", "servehttp"} \/ op # ""

\* C14: ipWhitelistMiddleware (either server) passes a request to the next
\* handler if and only if its method is GET or HEAD or its client IP
\* (X-Real-IP when non-empty, else the remote address) is whitelisted; any
\* other request is answered 403, or 400 when the remote address cannot be
\* parsed, and the next handler is not invoked.
C14_PassIffReadOrWhitelisted ==
    /\ Passed => SpecifiedToPass(rq)
    /\ Blocked =>
          /\ ~SpecifiedToPass(rq)
          /\ rsp.status \in {400, 403}
          /\ rsp.status = 400 => rq.remote = BadRemoteAddr
          /\ calls = <<>>

\* The operations of the S3Controller.
Operations ==
    {"GetObject", "PutObject", "DeleteObject", "PostObject",
     "CreateMultipartUpload", "UploadPart", "CompleteMultipartUpload",
     "AbortMultipartUpload"}

\* An operation of the controller has handled the request.
Handled == Dispatched /\ op \in Operations /\ rpc = "done"

\* C16: every operation that needs an object (GetObject, PutObject,
\* DeleteObject, CreateMultipartUpload, UploadPart, CompleteMultipartUpload,
\* AbortMultipartUpload and the form upload PostObject) rejects a request
\* whose object key is empty with a 400 and issues no backend call.
C16_EmptyKeyRejected ==
    (Handled /\ inp.key = <<>>) =>
        /\ rsp.status = 400
        /\ calls = <<>>

\* s wrapped in double quotes
Quoted(s) == <<Quote>> \o s \o <<Quote>>

\* s neither begins nor ends with a double quote
Bare(s) == s = <<>> \/ (s[1] # Quote /\ s[Len(s)] # Quote)

\* The operation answered success after a backend call that succeeded.
Succeeded(name) ==
    /\ Handled
    /\ op = name
    /\ calls # <<>>
    /\ inp.out.err = S3Nil

\* C17: for every ETag e the backend returns unquoted, the ETag emitted to
\* the client is e wrapped in double quotes, in the ETag header of the
\* UploadPart response and in the ETag field of the CompleteMultipartUpload
\* response.
C17_OutwardETagQuoted ==
    \A name \in {"UploadPart", "CompleteMultipartUpload"} :
        (Succeeded(name) /\ inp.out.etag # <<>> /\ Bare(inp.out.etag)) =>
            rsp.fields.ETag = Quoted(inp.out.etag)

\* A backend CompleteMultipartUpload was issued for the body that was read.
Forwarded ==
    /\ Handled
    /\ op = "CompleteMultipartUpload"
    /\ calls # <<>>

\* the i-th ETag of the body and of the forwarded list
ClientETag(i) == inp.body.Parts[i].ETag
ForwardedETag(i) == calls[1].args.Parts[i].ETag

\* c is f with double quotes, and nothing else, before and after it
OnlyQuotesAround(c, f) ==
    \E i \in 0..Len(c) :
        /\ i + Len(f) <= Len(c)
        /\ SubSeq(c, i + 1, i + Len(f)) = f
        /\ \A k \in (1..i) \cup ((i + Len(f) + 1)..Len(c)) : c[k] = Quote

\* C18 (as amended): for every part of a completion body the forwarded
\* ETag is the client's ETag with every leading and trailing double quote
\* removed.  For e that neither begins nor ends with a double quote: a
\* quoted "e" is forwarded as e, an unquoted e is forwarded unchanged
\* (unquoting is idempotent), and quoting the forwarded value gives back
\* the client's quoted value.
C18_InboundETagUnquoted ==
    Forwarded =>
        /\ Len(calls[1].args.Parts) = Len(inp.body.Parts)
        /\ \A i \in 1..Len(inp.body.Parts) :
              /\ Bare(ForwardedETag(i))
              /\ OnlyQuotesAround(ClientETag(i), ForwardedETag(i))
              /\ Bare(ClientETag(i)) => ForwardedETag(i) = ClientETag(i)
              /\ \A e \in ClientETags :
                    (Bare(e) /\ ClientETag(i) = Quoted(e)) =>
                        /\ ForwardedETag(i) = e
                        /\ Quoted(ForwardedETag(i)) = ClientETag(i)

\* C18 witness: a body with a quoted and an unquoted ETag was forwarded.
C18_Witness ==
    /\ Forwarded
    /\ Len(inp.body.Parts) = 2
    /\ ClientETag(1) = Quoted(<<"a", "1">>)
    /\ ClientETag(2) = <<"a", "1">>
    /\ ForwardedETag(1) = <<"a", "1">>
    /\ ForwardedETag(2) = <<"a", "1">>

\* s without one pair of surrounding double quotes
WithoutSurroundingPair(s) ==
    IF Len(s) >= 2 /\ s[1] = Quote /\ s[Len(s)] = Quote
    THEN SubSeq(s, 2, Len(s) - 1)
    ELSE s

\* C18 as stated, for every ETag e: a quoted "e" is forwarded as e, and
\* quoting the forwarded value gives back the client's quoted value.
\* Violated by the ETag ""a1"" (e = "a1"), which is forwarded as a1.
C18_InboundETagUnquotedAsStated ==
    Forwarded =>
        \A i \in 1..Len(inp.body.Parts) :
            /\ ForwardedETag(i) = WithoutSurroundingPair(ClientETag(i))
            /\ ClientETag(i) # WithoutSurroundingPair(ClientETag(i)) =>
                  Quoted(ForwardedETag(i)) = ClientETag(i)

\* The body of the completion request was read and did not parse.
BodyUnparsable ==
    /\ Handled
    /\ op = "CompleteMultipartUpload"
    /\ "body" \in DOMAIN inp
    /\ inp.body.err

\* C19: a CompleteMultipartUpload request whose body fails to parse as XML
\* is answered 400 and causes no backend call (the upload session is left
\* as it was); a backend CompleteMultipartUpload is only ever issued for a
\* body that parsed.
C19_UnparsableBodyRejected ==
    /\ BodyUnparsable => (rsp.status = 400 /\ calls = <<>>)
    /\ Forwarded => ("body" \in DOMAIN inp /\ ~inp.body.err)

\* C19 witness: an unparsable body was answered 400.
C19_Witness ==
    /\ BodyUnparsable
    /\ rsp.status = 400
    /\ rsp.fields.error = "Invalid XML body"

\* The backend call of the operation failed.
BackendFailed ==
    /\ Handled
    /\ calls # <<>>
    /\ inp.out.err # S3Nil

\* C20: handleCOSError answers a backend error (code, message, request id)
\* with the backend's own status and an envelope of exactly that Code,
\* Message and RequestId, and any other failure with 500 and the Code
\* InternalError; no operation answers a failed backend call with a 2xx.
C20_ErrorMapping ==
    BackendFailed =>
        /\ rsp.kind = "error"
        /\ rsp.status \notin 200..299
        /\ inp.out.err.kind = "cos" =>
              /\ rsp.status = inp.out.err.status
              /\ rsp.fields = [Code |-> inp.out.err.code,
                               Message |-> inp.out.err.message,
                               RequestId |-> inp.out.err.requestID]
        /\ inp.out.err.kind # "cos" =>
              /\ rsp.status = 500
              /\ rsp.fields.Code = "InternalError"

\* C20 witness: a backend 404 NoSuchUpload was handed on by UploadPart.
C20_Witness ==
    /\ BackendFailed
    /\ op = "UploadPart"
    /\ inp.out.err.kind = "cos"
    /\ inp.out.err.code = "NoSuchUpload"
    /\ rsp.status = 404
    /\ rsp.fields.RequestId = "req-2"

\* s is the decimal numeral of a positive integer
PositiveNumeral(s) ==
    /\ s # <<>>
    /\ \A i \in 1..Len(s) : s[i] \in {"0", "1", "2", "3", "4", "5", "6",
                                      "7", "8", "9"}
    /\ \E i \in 1..Len(s) : s[i] # "0"

\* UploadPart has handled the request.
UploadPartHandled == Handled /\ op = "UploadPart"

\* C21: an UploadPart request with a missing partNumber or uploadId, with a
\* partNumber that is not a positive integer, or without a known content
\* length is answered with a 4xx and the backend UploadPart is never called
\* for it.
C21_InvalidUploadPartRejected ==
    (/\ UploadPartHandled
     /\ \/ inp.partNumber = <<>>
        \/ QueryUploadID(rq) = ""
        \/ ~PositiveNumeral(inp.partNumber)
        \/ ("headers" \in DOMAIN inp /\ inp.headers.contentLength < 0)) =>
        /\ rsp.status \in 400..499
        /\ calls = <<>>

\* The name of a header without its first n characters.
NameSuffix(h, n) == SubSeq(h, n + 1, Len(h))

\* Header names are compared without regard to case.
IsAmzMeta(h) ==
    /\ Len(h) >= Len(AmzMetaPrefix)
    /\ ToLower(SubSeq(h, 1, Len(AmzMetaPrefix))) = AmzMetaPrefix

IsCosMeta(h) ==
    /\ Len(h) >= Len(CosMetaPrefix)
    /\ ToLower(SubSeq(h, 1, Len(CosMetaPrefix))) = CosMetaPrefix

\* The metadata the call hands to the backend is that of the request's
\* x-amz-meta-* headers: one x-cos-meta-* entry per such header, with the
\* header's suffix and the first of its values, and no other entry.
MetadataOf(call) ==
    LET meta == call.args.XCosMetaXXX
        other == inp.headers.other
    IN /\ \A h \in DOMAIN other :
            IsAmzMeta(h) =>
                \E n \in DOMAIN meta :
                    /\ IsCosMeta(n)
                    /\ NameSuffix(n, Len(CosMetaPrefix)) =
                           NameSuffix(h, Len(AmzMetaPrefix))
                    /\ meta[n] = other[h][1]
       /\ \A n \in DOMAIN meta :
            /\ IsCosMeta(n)
            /\ \E h \in DOMAIN other :
                    /\ IsAmzMeta(h)
                    /\ NameSuffix(h, Len(AmzMetaPrefix)) =
                           NameSuffix(n, Len(CosMetaPrefix))

\* C22: for PutObject and CreateMultipartUpload every request header whose
\* name starts with x-amz-meta- (without regard to case) is passed to the
\* backend under the x-cos-meta- prefix with the same suffix and the first
\* value of the header; headers without that prefix are not passed as
\* metadata.
C22_MetadataRenamed ==
    (Handled /\ op \in {"PutObject", "CreateMultipartUpload"}) =>
        \A i \in 1..Len(calls) : MetadataOf(calls[i])

\* A request with a repeated metadata header, a second metadata header and
\* a header that is not metadata reached the backend.
C22_Witness ==
    /\ Handled
    /\ op \in {"PutObject", "CreateMultipartUpload"}
    /\ calls # <<>>
    /\ HdrAmzMetaK \in DOMAIN inp.headers.other
    /\ Len(inp.headers.other[HdrAmzMetaK]) > 1
    /\ HdrOtherK \in DOMAIN inp.headers.other
    /\ Cardinality(DOMAIN calls[1].args.XCosMetaXXX) = 2

\* The concatenation of the first n sequences of ss.
Concat(ss) ==
    LET upTo[n \in 0..Len(ss)] ==
            IF n = 0 THEN <<>> ELSE upTo[n - 1] \o ss[n]
    IN upTo[Len(ss)]

\* The form key with the uploaded file's name in the place of every
\* ${filename} placeholder.
SubstitutedKey(form) ==
    LET k == form.keyValues[1]
    IN Concat([i \in 1..Len(k) |-> IF k[i] = FilenamePlaceholder
                                  THEN form.files[1].Filename
                                  ELSE <<k[i]>>])

PostObjectHandled == Handled /\ op = "PostObject"

\* The form could be read: the content type is multipart/form-data, the
\* body parses, both fields are there and the uploaded file can be opened.
FormReadable ==
    /\ HasPrefix(inp.contentType, <<"multipart/form-data">>)
    /\ "form" \in DOMAIN inp
    /\ Len(inp.form.keyValues) > 0
    /\ Len(inp.form.files) > 0
    /\ ~inp.form.files[1].openErr

\* The content type is not multipart/form-data, or the key field or the
\* file field is missing from the parsed form.
FormRejectable ==
    \/ ~HasPrefix(inp.contentType, <<"multipart/form-data">>)
    \/ /\ "form" \in DOMAIN inp
       /\ Len(inp.form.keyValues) = 0 \/ Len(inp.form.files) = 0

\* C23: a form upload issues exactly one backend Put, whose key is the form
\* field key with every ${filename} placeholder replaced by the uploaded
\* file's name; when the content type is not multipart/form-data or the key
\* or the file field is missing the answer is 400 and no backend call is
\* made.
C23_FormUploadIsOnePut ==
    PostObjectHandled =>
        /\ FormReadable =>
              /\ Len(calls) = 1
              /\ calls[1].op = "Put"
              /\ calls[1].key = SubstitutedKey(inp.form)
        /\ FormRejectable => (rsp.status = 400 /\ calls = <<>>)

\* A key with two placeholders was uploaded under a non-empty file name.
C23_Witness ==
    /\ PostObjectHandled
    /\ FormReadable
    /\ inp.form.keyValues[1] =
           <<FilenamePlaceholder, "-", FilenamePlaceholder>>
    /\ inp.form.files[1].Filename = <<"n">>
    /\ calls # <<>>
    /\ calls[1].key = <<"n", "-", "n">>

\* COSProxyHandler.ServeHTTP received a request whose query carries an
\* uploadId.
StreamingWithUploadId ==
    /\ rq.stack = "nethttp"
    /\ op # ""
    /\ rq.hasUploadId

\* The request was forwarded to the backend as it came, as an operation on
\* the upload its uploadId names.
ForwardedToUpload ==
    \E i \in 1..Len(calls) :
        /\ calls[i].op = "Forward"
        /\ calls[i].args.method = rq.method
        /\ calls[i].args.uploadId = rq.uploadId

\* C25: in COSProxyHandler.ServeHTTP a request that carries an uploadId is
\* never handled as a whole-object operation: a DELETE with uploadId ends in
\* an abort of that upload and never in a backend Delete of the object, and
\* a PUT with partNumber and uploadId is forwarded as a part of that upload
\* and never ends in a simple Put of the key or in the initiation of a new
\* multipart session.
C25_UploadIdNeverWholeObject ==
    StreamingWithUploadId =>
        /\ rq.method = "DELETE" =>
              /\ "Delete" \notin CallOps
              /\ (rpc = "done" /\ op # "ServeHTTP") => ForwardedToUpload
        /\ (rq.method = "PUT" /\ inp.partNumber # <<>>) =>
              /\ "Put" \notin CallOps
              /\ pc = "idle"
              /\ (rpc = "done" /\ op # "ServeHTTP") => ForwardedToUpload

\* The workers that are at position p, as a bag.
WorkersAt(p) ==
    [w \in {x \in BagToSet(workers) : x.pc = p} |-> workers[w]]

\* Number of UploadPart calls that have started and not returned.
InFlight == BagCardinality(WorkersAt("upload"))

\* AbortMultipartUpload or CompleteMultipartUpload has been issued.
Ending == abortCalls > 0 \/ completeCalls > 0

\* C24: at the moment AbortMultipartUpload or CompleteMultipartUpload is
\* issued, the producer and all workers have terminated and no UploadPart
\* call is in flight; and from then on no UploadPart call starts.
C24_EndAfterAllTasks ==
    [][/\ (~Ending /\ Ending') => (AllTasksDone /\ InFlight = 0)
       /\ Ending => /\ uploadCalls' = uploadCalls
                    /\ AllTasksDone'
                    /\ InFlight' = 0]_vars

\* A session with uploaded parts was aborted; another was completed.
C24_Witness ==
    /\ pc = "done"
    /\ Ending
    /\ Len(emitted) >= 3
    /\ \E p \in PartNumbers : uploadCalls[p] > 0
    /\ failedParts # {}

\* C26: every session whose Initiate succeeded and whose handler returned
\* ended through a backend call: CompleteMultipartUpload succeeded or
\* AbortMultipartUpload was issued.
C26_ReturnedSessionEnded ==
    (pc = "done" /\ uploadID # "") =>
        \/ completeCalls > 0 /\ completeErr = NoErr
        \/ abortCalls > 0

\* A failure of the session itself: the body could not be read or an
\* UploadPart call was rejected.
GenuineFailure(err) ==
    /\ err # NoErr
    /\ err # Canceled

\* C27: the error reported for a failed session is that of the first task
\* that returned a failure, which is a failure of its own; the
\* context-cancelled errors the sibling tasks return afterwards never
\* replace it.
C27_FirstFailureReported ==
    [][/\ (gErr = NoErr /\ gErr' # NoErr) =>
              (~ctxDone /\ GenuineFailure(gErr'))
       /\ gErr # NoErr => gErr' = gErr
       /\ abortCalls' > abortCalls =>
              /\ GenuineFailure(gErr)
              /\ response' = FailureResponse(gErr)]_vars

\* A failed part was reported although the producer and a worker returned
\* context-cancelled errors afterwards.
C27_Witness ==
    /\ pc = "done"
    /\ abortCalls > 0
    /\ gErr.kind = "cos"
    /\ producer.err = Canceled
    /\ Cardinality(failedParts) >= 2
    /\ response = FailureResponse(gErr)

\* Parts read from the stream whose UploadPart call has not returned: those
\* emitted and not yet answered, and the one the producer holds.
Unacked ==
    Cardinality({i \in 1..Len(emitted) :
                    /\ etagRet[emitted[i].PartNumber] = NoETag
                    /\ emitted[i].PartNumber \notin failedParts})
    + (IF producer.pc = "send" THEN 1 ELSE 0)

Holders(p) ==
    Cardinality({i \in 1..Len(partsCh) : partsCh[i].PartNumber = p})
    + BagCardinality([w \in {x \in BagToSet(workers) :
                                 x.part.PartNumber = p} |-> workers[w]])

\* C30: every emitted part is taken from the queue by at most one worker and
\* UploadPart is called at most once per part number: a failed part is
\* never retried and no part is uploaded twice.
C30_EachPartOnce ==
    \A p \in PartNumbers :
        /\ uploadCalls[p] <= 1
        /\ Holders(p) <= 1
        /\ p \in failedParts => Holders(p) = 0

\* A session ended after a part failed and others were uploaded.
C30_Witness ==
    /\ pc = "done"
    /\ failedParts # {}
    /\ \E p \in PartNumbers : p \notin failedParts /\ etagRet[p] # NoETag
    /\ \A p \in failedParts : uploadCalls[p] = 1

\* Once the context is cancelled no UploadPart call starts: a worker that
\* takes a part afterwards, or took it before and has not started the call,
\* returns at its select.
NoUploadStartsAfterCancel ==
    ctxDone => uploadCalls' = uploadCalls

PartsInHand ==
    {partsCh[i] : i \in 1..Len(partsCh)}
    \cup {w.part : w \in {x \in BagToSet(workers) :
                              x.pc \in {"select", "upload"}}}
    \cup (IF producer.pc = "send" THEN {producer.chunk} ELSE {})

\* Offset in the stream at which the i-th emitted part begins: the lengths
\* of the parts before it, added up.
StartOf(i) ==
    LET sum[k \in 0..(i - 1)] ==
            IF k = 0 THEN 0 ELSE sum[k - 1] + emitted[k].Len
    IN sum[i - 1]

\* The session completed: every part was uploaded and the Complete call
\* succeeded.
SessionSucceeded ==
    /\ pc = "done"
    /\ completeCalls > 0
    /\ completeErr = NoErr

\* C31: a part's buffer is not overwritten by a later read while the part is
\* queued or being uploaded, the data UploadPart received for the i-th part
\* is the stream from the end of part i - 1 on, and in a successful session
\* the parts 1..N, in part number order, make up the whole stream read.
C31_PartsAreTheStream ==
    /\ \A part \in PartsInHand :
          /\ part.Buf \in 1..Len(buffers)
          /\ buffers[part.Buf] = [Off |-> part.Off, Len |-> part.Len]
    /\ \A i \in 1..Len(emitted) :
          /\ emitted[i].PartNumber = i
          /\ etagRet[i] # NoETag =>
                etagRet[i] = <<"etag", StartOf(i), emitted[i].Len>>
    /\ SessionSucceeded =>
          /\ \A i \in 1..Len(emitted) : etagRet[i] # NoETag
          /\ StartOf(Len(emitted) + 1) = bodyPos
          /\ Len(manifest) = Len(emitted)

\* A stream of five parts, the last one short, was uploaded and completed.
C31_Witness ==
    /\ SessionSucceeded
    /\ Len(emitted) = Concurrency
    /\ bodyPos = Concurrency * PartSize - 1
    /\ \A i \in 1..Len(emitted) : etagRet[i] # NoETag

\* ---- two calls of executeMultipartPut at the same time

SiblingPc == sibling[1]
SiblingGErr == sibling[12]
SiblingCtxDone == sibling[13]

\* The failure the errgroup holds is one of this call's own tasks: a part
\* of its own that the backend refused or a read of its own body.
OwnFailure ==
    /\ GenuineFailure(gErr)
    /\ failedParts # {} \/ GenuineFailure(readErr)

\* C32: of two sessions running at the same time, a step of one changes
\* nothing of the other, the scheduler's turn from one to the other changes
\* nothing of either, the two have different upload ids, and a session is
\* cancelled and aborted only for a failure of its own tasks.
C32_SessionsIsolated ==
    [][/\ \/ sibling' = sibling
          \/ sibling' = mpVars /\ mpVars' = sibling
       /\ uploadID' # "" => uploadID' # SiblingUploadID'
       /\ (ctxDone' /\ pc' \in {"initiate", "start", "wait"}) => OwnFailure'
       /\ abortCalls' > 0 => OwnFailure']_vars

\* One session has failed and is cancelled while the other, not cancelled,
\* has a part of its own being uploaded.
C32_Witness ==
    /\ pc = "wait"
    /\ ~ctxDone
    /\ gErr = NoErr
    /\ InFlight > 0
    /\ SiblingPc = "wait"
    /\ SiblingCtxDone
    /\ SiblingGErr # NoErr

\* ---- handlePutObject's choice of the upload strategy

\* handlePutObject has read the content length of a PUT.
PutStrategyChosen ==
    /\ rq.stack = "nethttp"
    /\ rq.method = "PUT"
    /\ op = "handlePutObject"
    /\ "contentLength" \in DOMAIN inp

\* Number of backend calls of the operation name made for the request.
CallCount(name) == Cardinality({i \in 1..Len(calls) : calls[i].op = name})

\* C33: handlePutObject chooses by the content length alone: a PUT of known
\* length below 5 MiB makes one backend Put and no multipart call; a PUT of
\* 5 MiB or more, or of unknown length (-1), makes no backend Put and issues
\* InitiateMultipartUpload; one of the two runs, never both.
C33_StrategyByContentLength ==
    PutStrategyChosen =>
        LET n == inp.contentLength
            small == n # -1 /\ n < 5 * 1024 * 1024
        IN /\ rpc \in {"executeSimplePut", "executeMultipartPut", "done"}
           /\ small =>
                 /\ pc = "idle"
                 /\ uploadID = ""
                 /\ rpc # "executeMultipartPut"
                 /\ CallCount("Put") = (IF rpc = "done" THEN 1 ELSE 0)
                 /\ Len(calls) = CallCount("Put")
           /\ ~small =>
                 /\ CallCount("Put") = 0
                 /\ rpc = "executeMultipartPut"
                 /\ pc # "idle"
                 /\ (~ENABLED CtrlNext) => pc # "initiate"

\* A PUT of unknown length went to the multipart path and its
\* InitiateMultipartUpload succeeded, with no backend Put.
C33_Witness ==
    /\ PutStrategyChosen
    /\ inp.contentLength = -1
    /\ uploadID # ""
    /\ CallCount("Put") = 0

\* ---- the inbound request's cancellation

\* C34: the session runs under the cancellation and deadline of the inbound
\* request: when the request's context ended while parts were in flight,
\* the session ends with an abort and without a Complete call.
C34_RequestCancelAborts ==
    (reqCtx.done /\ reqCtx.inFlight > 0 /\ pc = "done") =>
        /\ abortCalls > 0
        /\ completeCalls = 0

\* ---- the options of the multipart path

\* The custom metadata a backend call carries.
MetadataSent(args) ==
    IF "XCosMetaXXX" \in DOMAIN args THEN args.XCosMetaXXX ELSE <<>>

\* C35: the InitiateMultipartUpload call of executeMultipartPut carries the
\* request's content type and its custom metadata headers, as the Put of
\* the simple path does for the same request.
C35_InitiateCarriesMetadata ==
    \A i \in 1..Len(calls) :
        (PutStrategyChosen /\ calls[i].op = "InitiateMultipartUpload") =>
            /\ inp.headers.contentType # "" =>
                  /\ "ContentType" \in DOMAIN calls[i].args
                  /\ calls[i].args.ContentType = inp.headers.contentType
            /\ MetadataSent(calls[i].args) = PassedCosMeta(inp.headers.other)

\* ---- the part list of CompleteMultipartUpload

\* CompleteMultipartUpload of the S3Controller has read the body of a
\* request that named a key and an upload id, and has answered.
CompleteBodyRead ==
    /\ op = "CompleteMultipartUpload"
    /\ rpc = "done"
    /\ "body" \in DOMAIN inp

\* C36: CompleteMultipartUpload forwards the client's part list unchanged
\* in length and order: the i-th forwarded entry has the part number of the
\* i-th Part element, nothing is sorted, deduplicated or dropped, and an
\* accepted request makes exactly one backend CompleteMultipartUpload call
\* (a body that does not parse makes none).
C36_PartListForwardedInOrder ==
    CompleteBodyRead =>
        IF inp.body.err
        THEN calls = <<>>
        ELSE /\ Len(calls) = 1
             /\ calls[1].op = "CompleteMultipartUpload"
             /\ Len(calls[1].args.Parts) = Len(inp.body.Parts)
             /\ \A i \in 1..Len(inp.body.Parts) :
                   calls[1].args.Parts[i].PartNumber
                       = inp.body.Parts[i].PartNumber

\* A list with part 2 before part 1 was forwarded as it came.
C36_Witness ==
    /\ CompleteBodyRead
    /\ ~inp.body.err
    /\ Len(inp.body.Parts) >= 2
    /\ inp.body.Parts[1].PartNumber > inp.body.Parts[2].PartNumber
    /\ Len(calls) = 1
    /\ calls[1].args.Parts[1].PartNumber = inp.body.Parts[1].PartNumber

\* ---- the manifest of an empty stream

\* C37: every CompleteMultipartUpload call of executeMultipartPut carries at
\* least one part; a body of length 0 never leads to a Complete call with
\* an empty manifest.
C37_CompleteHasAPart ==
    completeCalls > 0 => Len(manifest) >= 1

\* ---- the bucket and the backend call

\* An S3Controller operation has resolved the address of its request.
AddressResolved == rq.stack = "gin" /\ inp.resolved

\* The addresses that name the same key as the request's, in another
\* bucket (another host prefix or another first path segment).
SameKeyOtherBucket ==
    {a \in CtrlAddresses :
        LET in == Resolved(a.host, a.path, a.baseDomain)
        IN in.key = inp.key /\ in.bucket # inp.bucket}

\* C38: the backend call of an S3Controller operation is made on the
\* resolved key and does not depend on the resolved bucket: it is the call
\* the same request makes in any other bucket, it has no bucket among its
\* options, and the bucket is seen in the XML response only.
C38_BackendCallByKeyOnly ==
    AddressResolved =>
        /\ \A i \in 1..Len(calls) :
              /\ calls[i].key = inp.key
              /\ "Bucket" \notin DOMAIN calls[i].args
              /\ \A a \in SameKeyOtherBucket :
                    calls[i].key
                        = BackendKey(Resolved(a.host, a.path, a.baseDomain))
        /\ "Bucket" \in DOMAIN rsp.fields => rsp.fields.Bucket = inp.bucket

\* A session was initiated for the key a of bucket x, which bucket b has
\* too: the backend was asked for a, the response names x.
C38_Witness ==
    /\ AddressResolved
    /\ op = "CreateMultipartUpload"
    /\ inp.bucket = <<"x">>
    /\ SameKeyOtherBucket # {}
    /\ Len(calls) = 1
    /\ calls[1].key = <<"a">>
    /\ rsp.status = 200
    /\ rsp.fields.Bucket = <<"x">>

====
